---- MODULE Spec2Model ----
(***************************************************************************)
(* LocalLens: the POI repository (DataServiceImpl), the proximity matcher  *)
(* (findPOIsWithNearby), the attribute filter (filterPOIsByAttributes),    *)
(* the intent analysis (LMServiceImpl.analyzeQuery) and the orchestrator   *)
(* (QueryServiceImpl.processQuery).                                        *)
(*                                                                         *)
(* Strings are sequences of one-character strings, so that toLowerCase and *)
(* String.prototype.includes are computed and not assumed.  Numbers that   *)
(* are coordinates are in thousandths of a degree; distances are in        *)
(* millionths of a mile.                                                   *)
(***************************************************************************)
EXTENDS Integers, Sequences, FiniteSets, TLC

(***************************************************************************)
(* Bounds of the model.                                                    *)
(***************************************************************************)
MaxCalls == 2       \* loadPOIs calls made in one behaviour
MaxPois == 2        \* POIs in a fetched dataset
MaxRefs == 3        \* array objects alive at once
MaxTargets == 2     \* findPOIsWithNearby: length of targetPOIs
MaxCands == 3       \* findPOIsWithNearby: length of nearbyPOIs
MaxFilterPois == 3  \* filterPOIsByAttributes: length of pois
MaxReqAttrs == 2    \* filterPOIsByAttributes: length of requestedAttributes
MaxQueries == 2     \* processQuery calls made in one behaviour
MaxSqlQueries == 2  \* processQuery (SQL mode) calls made in one behaviour
MaxRetries == 2     \* clicks on Retry in one behaviour
MaxInits == 2       \* sqliteService.init calls made by queries in one behaviour
MaxSubmits == 3     \* handleQuerySubmit calls made in one behaviour
MaxEvents == 2      \* beforeinstallprompt events in one behaviour
MaxShows == 2       \* showInstallPrompt calls made in one behaviour
MaxCallbacks == 2   \* callbacks given to onInstallAvailabilityChange

VARIABLES
    pois,               \* DataServiceImpl.pois
    supportedTypes,     \* DataServiceImpl.supportedTypes: a reference into heap
    isLoaded,           \* DataServiceImpl.isLoaded
    loadPromise,        \* DataServiceImpl.loadPromise: 0 is null, else an index of loads
    currentDataSource,  \* DataServiceImpl.currentDataSource
    heap,               \* the array objects that hold lists of types
    loads,              \* the _loadPOIsInternal invocations, in order of start
    calls,              \* the promises returned by loadPOIs, in order of call
    held,               \* the array a caller got from getSupportedTypes (ref 0: none),
                        \* whether the repository was loaded at that call, and
                        \* whether the caller has changed the array since
    lastQuery,          \* arguments and result of the last queryPOIs call, and
                        \* whether the repository was loaded at that call
    loadedTypes,        \* history: supportedTypes of the dataset last loaded
    mutated,            \* history: a caller has changed an array it was handed by
                        \* the loaded repository
    targetPOIs, nearbyPOIs, maxDistance, groups, proxPc,    \* findPOIsWithNearby
    filterPois, requestedAttributes, filtered, filterPc,    \* filterPOIsByAttributes
    ready,              \* LMServiceImpl.ready
    analyses,           \* the invocations of analyzeQuery, in order of call
    queries,            \* the invocations of processQuery, in order of call
    sqlQueries,         \* the invocations of processQuery (SQL mode)
    initializationPromise,  \* LMServiceImpl.initializationPromise: "null", or its state
    pipelineLoads,      \* history: the calls of pipeline() made by initialize
    isLoading,          \* LMProvider: isLoading
    loadingProgress,    \* LMProvider: loadingProgress
    lmError,              \* LMProvider: the code of error, "" for null (App: lmError)
    runs,               \* LMProvider: the effect runs, one per value of retryCount
    initialized,        \* SqliteService.initialized
    db,                 \* SqliteService.db: an index into dbs, 0 for null
    dbs,                \* the databases made by init
    inits,              \* the invocations of SqliteService.init
    used,               \* history: the handles runQuery has used
    localStorage,       \* localStorage['locallens-data-source'], "" when not set
    queryResult,        \* AppContent: queryResult, NoResult for null
    isProcessing,       \* AppContent: isProcessing
    submissions,        \* the invocations of handleQuerySubmit
    currentQuery,       \* AppContent: currentQuery
    deferredPrompt,     \* PWAUtils.deferredPrompt: an index into promptEvents, 0 for null
    installCallbacks,   \* PWAUtils.installCallbacks
    delivered,          \* history: what each callback was last called with
    promptEvents,       \* the beforeinstallprompt events so far, and their state
    shows,              \* the invocations of showInstallPrompt
    late                \* history: callbacks called while not subscribed

dataVars == <<pois, supportedTypes, isLoaded, loadPromise, currentDataSource, heap,
              loads, calls, held, lastQuery, loadedTypes, mutated>>
proxVars == <<targetPOIs, nearbyPOIs, maxDistance, groups, proxPc>>
filterVars == <<filterPois, requestedAttributes, filtered, filterPc>>
queryVars == <<ready, analyses, queries, sqlQueries>>
providerVars == <<initializationPromise, pipelineLoads, isLoading, loadingProgress, lmError, runs>>
sqliteVars == <<initialized, db, dbs, inits, used, localStorage>>
appVars == <<queryResult, isProcessing, submissions, currentQuery>>
pwaVars == <<deferredPrompt, installCallbacks, delivered, promptEvents, shows, late>>
shellVars == <<providerVars, sqliteVars, appVars, pwaVars>>
vars == <<dataVars, proxVars, filterVars, queryVars, shellVars>>
nonDataVars == <<proxVars, filterVars, queryVars, shellVars>>
nonProxVars == <<dataVars, filterVars, queryVars, shellVars>>
nonFilterVars == <<dataVars, proxVars, queryVars, shellVars>>
matcherVars == <<proxVars, filterVars>>
nonSqliteVars == <<dataVars, matcherVars, queryVars, providerVars, appVars, pwaVars>>
nonPwaVars == <<dataVars, matcherVars, queryVars, providerVars, sqliteVars, appVars>>

(***************************************************************************)
(* Strings.                                                                *)
(***************************************************************************)
UpperChars == <<"A","B","C","D","E","F","G","H","I","J","K","L","M",
                "N","O","P","Q","R","S","T","U","V","W","X","Y","Z">>
LowerChars == <<"a","b","c","d","e","f","g","h","i","j","k","l","m",
                "n","o","p","q","r","s","t","u","v","w","x","y","z">>

ToLowerChar(c) ==
    IF \E i \in 1..Len(UpperChars) : UpperChars[i] = c
    THEN LowerChars[CHOOSE i \in 1..Len(UpperChars) : UpperChars[i] = c]
    ELSE c

\* String.prototype.toLowerCase, on the ASCII letters
toLowerCase(s) == [i \in 1..Len(s) |-> ToLowerChar(s[i])]

\* String.prototype.includes: sub occurs in s as a contiguous run
includes(s, sub) ==
    \E k \in 0..(Len(s) - Len(sub)) :
        \A i \in 1..Len(sub) : s[k + i] = sub[i]

SeqsUpTo(S, n) == UNION {[1..k -> S] : k \in 0..n}

(***************************************************************************)
(* JavaScript values as they come out of response.json().                  *)
(***************************************************************************)
Undefined == [t |-> "undefined", s |-> <<>>, n |-> 0]
Str(chars) == [t |-> "string", s |-> chars, n |-> 0]
Num(k) == [t |-> "number", s |-> <<>>, n |-> k]

\* !v is false
Truthy(v) ==
    \/ v.t = "string" /\ v.s # <<>>
    \/ v.t = "number" /\ v.n # 0

typeof(v) == v.t

(***************************************************************************)
(* The words the model uses.                                               *)
(***************************************************************************)
W_park == <<"p","a","r","k">>
W_PARK == <<"P","A","R","K">>
W_cafe == <<"c","a","f","e">>
W_Cafe == <<"C","a","f","e">>
W_zoo == <<"z","o","o">>

(***************************************************************************)
(* Datasets a fetch can deliver: JSON objects with the two properties      *)
(* supportedTypes and pois, each missing, a non-array or an array; the     *)
(* elements of pois are objects.                                           *)
(***************************************************************************)
Here == [present |-> TRUE, latitude |-> Num(37540), longitude |-> Num(-77436)]
NoAttributes == [present |-> FALSE, tags |-> <<>>]

Park1 == [id |-> Str(<<"p","1">>), name |-> Str(<<"M">>), type |-> Str(W_park),
          location |-> Here, address |-> Str(<<"1">>), attributes |-> NoAttributes]
Cafe1 == [id |-> Str(<<"c","1">>), name |-> Str(<<"L">>), type |-> Str(W_Cafe),
          location |-> [present |-> TRUE, latitude |-> Num(37545), longitude |-> Num(-77430)],
          address |-> Str(<<"2">>), attributes |-> NoAttributes]
\* id is the empty string
NoId == [Park1 EXCEPT !.id = Str(<<>>)]
\* no location property
NoLocation == [Park1 EXCEPT !.id = Str(<<"p","2">>),
                            !.location = [present |-> FALSE, latitude |-> Undefined,
                                          longitude |-> Undefined]]
\* latitude is the string "37.5"
LatString == [Park1 EXCEPT !.id = Str(<<"p","3">>),
                           !.location.latitude = Str(<<"3","7",".","5">>)]
\* latitude is 91 degrees
Polar == [Park1 EXCEPT !.id = Str(<<"p","4">>), !.location.latitude = Num(91000)]

PoiPool == {Park1, Cafe1, NoId, NoLocation, LatString, Polar}

Missing == [kind |-> "undefined", items |-> <<>>]
NotArray == [kind |-> "string", items |-> <<>>]
Array(items) == [kind |-> "array", items |-> items]

TypesOptions == {Missing, NotArray, Array(<<>>), Array(<<Str(W_park), Str(W_cafe)>>),
                 Array(<<Num(42)>>)}
PoisOptions == {Missing, NotArray} \cup {Array(ps) : ps \in SeqsUpTo(PoiPool, MaxPois)}

Datasets == [supportedTypes : TypesOptions, pois : PoisOptions]

\* !x for a property that is missing, a non-empty string or an array
Falsy(x) == x.kind = "undefined"
IsArray(x) == x.kind = "array"

(***************************************************************************)
(* DataServiceImpl._loadPOIsInternal: the checks between response.json()   *)
(* and the assignments.  The result is the code of the AppError thrown,    *)
(* or "" when no check throws.                                             *)
(***************************************************************************)
PoiError(poi) ==
    IF \/ ~Truthy(poi.id) \/ ~Truthy(poi.name) \/ ~Truthy(poi.type)
       \/ ~poi.location.present \/ ~Truthy(poi.address)
    THEN "DATA_VALIDATION_ERROR"
    ELSE IF \/ typeof(poi.location.latitude) # "number"
            \/ typeof(poi.location.longitude) # "number"
    THEN "DATA_VALIDATION_ERROR"
    ELSE ""

RECURSIVE PoisError(_, _)
PoisError(ps, i) ==
    IF i > Len(ps) THEN ""
    ELSE IF PoiError(ps[i]) # "" THEN PoiError(ps[i])
    ELSE PoisError(ps, i + 1)

Validate(data) ==
    IF Falsy(data.supportedTypes) \/ ~IsArray(data.supportedTypes)
    THEN "DATA_VALIDATION_ERROR"
    ELSE IF Falsy(data.pois) \/ ~IsArray(data.pois)
    THEN "DATA_VALIDATION_ERROR"
    ELSE PoisError(data.pois.items, 1)

\* Which fields _loadPOIsInternal assigns, given what Validate found:
\* the three assignments follow the last check.
AssignsEarly(data, err) ==
    [types |-> ~(Falsy(data.supportedTypes) \/ ~IsArray(data.supportedTypes)),
     pois |-> err = "", loaded |-> err = ""]
Assigns(data, err) ==
    [types |-> err = "", pois |-> err = "", loaded |-> err = ""]

\* loadPOIs: "if (this.loadPromise) return this.loadPromise"
NeverInProgress(promise) == FALSE
LoadInProgress(promise) == promise # 0

\* _loadPOIsInternal, catch block: "this.loadPromise = null"
PromiseKept(promise) == promise
PromiseAfterFailure(promise) == 0

(***************************************************************************)
(* The state of the repository.                                            *)
(***************************************************************************)
Refs == 1..MaxRefs
TypesList == heap[supportedTypes]
Repo == [pois |-> pois, supportedTypes |-> TypesList, isLoaded |-> isLoaded]
InFlight == {l \in DOMAIN loads : loads[l].pc \in {"fetching", "parsing"}}
FetchCount == Len(loads)

FreshRef(live) == CHOOSE r \in Refs : r \notin live /\ \A q \in Refs : q < r => q \in live

\* the heap after garbage is cleared: only the arrays in live keep their content
Collect(h, live) == [r \in Refs |-> IF r \in live THEN h[r] ELSE <<>>]

NoArray == [ref |-> 0, loaded |-> FALSE, touched |-> FALSE]
HeldRefs == {held.ref} \ {0}

InitData ==
    /\ pois = <<>>
    /\ supportedTypes = 1
    /\ heap = [r \in Refs |-> <<>>]
    /\ isLoaded = FALSE
    /\ loadPromise = 0
    /\ currentDataSource = "pois.json"
    /\ loads = <<>>
    /\ calls = <<>>
    /\ held = NoArray
    /\ lastQuery = [types |-> <<>>, result |-> <<>>, loaded |-> FALSE]
    /\ loadedTypes = <<>>
    /\ mutated = FALSE

\* a settlement that reaches only the first of the callers that wait
SettleFirstCall(l, st, err) ==
    [i \in DOMAIN calls |->
        IF /\ calls[i].load = l /\ calls[i].st = "pending"
           /\ \A j \in 1..(i - 1) : ~(calls[j].load = l /\ calls[j].st = "pending")
        THEN [calls[i] EXCEPT !.st = st, !.err = err]
        ELSE calls[i]]

\* every caller that awaits the promise of the invocation l sees it settle
SettleCalls(l, st, err) ==
    [i \in DOMAIN calls |->
        IF calls[i].load = l /\ calls[i].st = "pending"
        THEN [calls[i] EXCEPT !.st = st, !.err = err]
        ELSE calls[i]]

(***************************************************************************)
(* DataServiceImpl.loadPOIs(dataSourceFile); "" is the argument left out.  *)
(* It runs to the first await of _loadPOIsInternal, which is the fetch.    *)
(***************************************************************************)
loadPOIs(dataSourceFile) ==
    /\ LET requestedSource ==
               IF dataSourceFile # "" THEN dataSourceFile
               ELSE IF currentDataSource # "" THEN currentDataSource
               ELSE "pois.json"
           invalidate == requestedSource # currentDataSource
           loaded1 == IF invalidate THEN FALSE ELSE isLoaded
           promise1 == IF invalidate THEN 0 ELSE loadPromise
       IN  /\ currentDataSource' = requestedSource
           /\ isLoaded' = loaded1
           /\ IF loaded1
              THEN /\ calls' = Append(calls, [load |-> 0, st |-> "resolved", err |-> ""])
                   /\ loadPromise' = promise1
                   /\ loads' = loads
              ELSE IF LoadInProgress(promise1)
              THEN /\ calls' = Append(calls,
                          [load |-> promise1,
                           st |-> IF loads[promise1].pc \in {"fetching", "parsing"}
                                  THEN "pending" ELSE loads[promise1].pc,
                           err |-> loads[promise1].err])
                   /\ loadPromise' = promise1
                   /\ loads' = loads
              ELSE /\ loads' = Append(loads,
                          [pc |-> "fetching", src |-> requestedSource, err |-> "",
                           got |-> "",
                           pre |-> [Repo EXCEPT !.isLoaded = loaded1]])
                   /\ loadPromise' = Len(loads) + 1
                   /\ calls' = Append(calls,
                          [load |-> Len(loads) + 1, st |-> "pending", err |-> ""])
    /\ UNCHANGED <<pois, supportedTypes, heap, held, lastQuery, loadedTypes, mutated>>

\* a call of loadPOIs by a caller other than processQuery
LoadPOIs(dataSourceFile) ==
    /\ Len(calls) < MaxCalls
    /\ loadPOIs(dataSourceFile)
    /\ UNCHANGED nonDataVars

\* the catch block of _loadPOIsInternal, for the invocation l
Reject(l, err, got) ==
    /\ loadPromise' = PromiseAfterFailure(loadPromise)
    /\ loads' = [loads EXCEPT ![l] = [@ EXCEPT !.pc = "rejected", !.err = err, !.got = got]]
    /\ calls' = SettleCalls(l, "rejected", err)

\* "await fetch(url)" settles: a response that is ok, one that is not, or a rejection
FetchResponds(l, outcome) ==
    /\ l \in DOMAIN loads
    /\ loads[l].pc = "fetching"
    /\ IF outcome = "ok"
       THEN /\ loads' = [loads EXCEPT ![l] = [@ EXCEPT !.pc = "parsing", !.got = "response"]]
            /\ UNCHANGED <<loadPromise, calls>>
       ELSE IF outcome = "notok"
       THEN Reject(l, "DATA_FETCH_ERROR", "response")
       ELSE Reject(l, "DATA_PARSE_ERROR", "networkerror")
    /\ UNCHANGED <<pois, supportedTypes, heap, isLoaded, currentDataSource, held,
                   lastQuery, loadedTypes, mutated>>
    /\ UNCHANGED nonDataVars

\* "await response.json()" rejects with a SyntaxError
JsonFails(l) ==
    /\ l \in DOMAIN loads
    /\ loads[l].pc = "parsing"
    /\ Reject(l, "DATA_PARSE_ERROR", "syntaxerror")
    /\ UNCHANGED <<pois, supportedTypes, heap, isLoaded, currentDataSource, held,
                   lastQuery, loadedTypes, mutated>>
    /\ UNCHANGED nonDataVars

\* "await response.json()" delivers data: the checks, then the assignments or the catch
JsonResolves(l, data) ==
    /\ l \in DOMAIN loads
    /\ loads[l].pc = "parsing"
    /\ LET err == Validate(data)
           set == Assigns(data, err)
           fresh == FreshRef(HeldRefs)
           ref == IF set.types THEN fresh ELSE supportedTypes
       IN  /\ supportedTypes' = ref
           /\ heap' = Collect(IF set.types
                              THEN [heap EXCEPT ![fresh] = data.supportedTypes.items]
                              ELSE heap,
                              HeldRefs \cup {ref})
           /\ pois' = IF set.pois THEN data.pois.items ELSE pois
           /\ isLoaded' = IF set.loaded THEN TRUE ELSE isLoaded
           /\ loadedTypes' = IF err = "" THEN data.supportedTypes.items ELSE loadedTypes
           /\ IF err = ""
              THEN /\ loads' = [loads EXCEPT ![l] =
                                   [@ EXCEPT !.pc = "resolved", !.got = "dataset"]]
                   /\ calls' = SettleCalls(l, "resolved", "")
                   /\ loadPromise' = loadPromise
              ELSE Reject(l, err, "dataset")
    /\ UNCHANGED <<currentDataSource, held, lastQuery, mutated>>
    /\ UNCHANGED nonDataVars

(***************************************************************************)
(* DataServiceImpl.queryPOIs(types)                                        *)
(***************************************************************************)
\* the filter callback of queryPOIs without the toLowerCase of poi.type
TypeMatchesRaw(normalizedTypes, poi) ==
    \E i \in 1..Len(normalizedTypes) : normalizedTypes[i] = poi.type.s
\* "normalizedTypes.includes(poi.type.toLowerCase())"
TypeMatches(normalizedTypes, poi) ==
    \E i \in 1..Len(normalizedTypes) : normalizedTypes[i] = toLowerCase(poi.type.s)

queryPOIs(types) ==
    IF ~isLoaded THEN <<>>
    ELSE IF Len(types) = 0 THEN <<>>
    ELSE LET normalizedTypes == [i \in 1..Len(types) |-> toLowerCase(types[i])]
         IN  SelectSeq(pois, LAMBDA poi : TypeMatches(normalizedTypes, poi))

QueryArgs == {<<>>, <<W_PARK>>, <<W_park, W_cafe>>}

QueryPOIs(types) ==
    /\ lastQuery' = [types |-> types, result |-> queryPOIs(types), loaded |-> isLoaded]
    /\ UNCHANGED <<pois, supportedTypes, isLoaded, loadPromise, currentDataSource, heap,
                   loads, calls, held, loadedTypes, mutated>>
    /\ UNCHANGED nonDataVars

(***************************************************************************)
(* DataServiceImpl.getSupportedTypes(), and a caller that changes the      *)
(* array it was handed.                                                    *)
(***************************************************************************)
\* the array handed out, were it this.supportedTypes itself
ReturnedAlias(own, copy) == own
\* "[...this.supportedTypes]": the array handed out is the new one
ReturnedArray(own, copy) == copy

GetSupportedTypes ==
    LET copy == FreshRef({supportedTypes})
        ret == ReturnedArray(supportedTypes, copy)
    IN  /\ held' = [ref |-> ret, loaded |-> isLoaded, touched |-> FALSE]
        /\ heap' = Collect([heap EXCEPT ![copy] = heap[supportedTypes]], {supportedTypes, ret})
        /\ UNCHANGED <<pois, supportedTypes, isLoaded, loadPromise, currentDataSource,
                       loads, calls, lastQuery, loadedTypes, mutated>>
        /\ UNCHANGED nonDataVars

\* the caller runs list[0] = "zoo" or list.length = 0 on the array it holds
CallerMutates(how) ==
    /\ held.ref # 0
    /\ IF how = "store"
       THEN heap' = [heap EXCEPT ![held.ref] =
                        IF Len(@) = 0 THEN <<Str(W_zoo)>> ELSE [@ EXCEPT ![1] = Str(W_zoo)]]
       ELSE heap' = [heap EXCEPT ![held.ref] = <<>>]
    /\ held' = [held EXCEPT !.touched = TRUE]
    /\ mutated' = (mutated \/ held.loaded)
    /\ UNCHANGED <<pois, supportedTypes, isLoaded, loadPromise, currentDataSource,
                   loads, calls, lastQuery, loadedTypes>>
    /\ UNCHANGED nonDataVars

(***************************************************************************)
(* calculateDistance: the haversine formula with R = 3959, tabulated on    *)
(* the coordinates the model uses by evaluating the source's expression    *)
(* in double precision.  The values are millionths of a mile, rounded up,  *)
(* so that "distance <= maxDistance" is exact for every maxDistance that   *)
(* is a whole number of millionths.                                        *)
(***************************************************************************)
GridPoints == << <<37540, -77436>>, <<37545, -77430>>, <<37560, -77436>>,
                <<37565, -77436>> >>
DistMicro == << <<0, 476889, 1381952, 1727440>>,
                <<476889, 0, 1087331, 1420499>>,
                <<1381952, 1087331, 0, 345488>>,
                <<1727440, 1420499, 345488, 0>> >>

GridIndex(point) ==
    CHOOSE i \in 1..Len(GridPoints) :
        GridPoints[i] = <<point.latitude.n, point.longitude.n>>

calculateDistance(point1, point2) == DistMicro[GridIndex(point1)][GridIndex(point2)]

\* appConfig.search.nearbyDistanceMiles, 1.5 miles
nearbyDistanceMiles == 1500000

(***************************************************************************)
(* findPOIsWithNearby(targetPOIs, nearbyPOIs, maxDistance)                 *)
(***************************************************************************)
\* the comparator with its operands swapped
FarthestFirst(a, b) == b.distance - a.distance
\* "(a, b) => a.distance - b.distance"
ByDistance(a, b) == a.distance - b.distance

\* Array.prototype.sort is stable: an element goes behind those that do not
\* compare greater than it
InsertSorted(sorted, x) ==
    LET k == Cardinality({i \in 1..Len(sorted) : ByDistance(sorted[i], x) <= 0})
    IN  SubSeq(sorted, 1, k) \o <<x>> \o SubSeq(sorted, k + 1, Len(sorted))

RECURSIVE SortFrom(_, _, _)
SortFrom(list, i, sorted) ==
    IF i > Len(list) THEN sorted
    ELSE SortFrom(list, i + 1, InsertSorted(sorted, list[i]))

sort(list) == SortFrom(list, 1, <<>>)

\* the last filter, were it to keep every target
KeepsAll(group) == Len(group.nearbyPOIs) >= 0
\* "poi => poi.nearbyPOIs.length > 0"
HasNearby(group) == Len(group.nearbyPOIs) > 0

\* "{ ...nearbyPOI, distance }"
WithDistance(targetPOI, nearbyPOI) ==
    [poi |-> nearbyPOI,
     distance |-> calculateDistance(targetPOI.location, nearbyPOI.location)]

NearbyOf(targetPOI, candidates, maxD) ==
    LET mapped == [i \in 1..Len(candidates) |-> WithDistance(targetPOI, candidates[i])]
        kept == SelectSeq(mapped, LAMBDA n : n.distance <= maxD)
    IN  sort(kept)

findPOIsWithNearby(targets, candidates, maxD) ==
    LET mapped == [i \in 1..Len(targets) |->
                      [poi |-> targets[i],
                       nearbyPOIs |-> NearbyOf(targets[i], candidates, maxD)]]
    IN  SelectSeq(mapped, HasNearby)

Cafe2 == [Cafe1 EXCEPT !.id = Str(<<"c","2">>)]
Cafe3 == [Cafe1 EXCEPT !.id = Str(<<"c","3">>), !.location.latitude = Num(37560),
                       !.location.longitude = Num(-77436)]
ProxPool == {Park1, Cafe1, Cafe2, Cafe3}
Thresholds == {0, DistMicro[1][2], nearbyDistanceMiles}

InitProx ==
    /\ targetPOIs \in SeqsUpTo(ProxPool, MaxTargets)
    /\ nearbyPOIs \in SeqsUpTo(ProxPool, MaxCands)
    /\ maxDistance \in Thresholds
    /\ groups = <<>>
    /\ proxPc = "ready"

ProxIdle ==
    /\ targetPOIs = <<>>
    /\ nearbyPOIs = <<>>
    /\ maxDistance = 0
    /\ groups = <<>>
    /\ proxPc = "idle"

FindPOIsWithNearby ==
    /\ proxPc = "ready"
    /\ groups' = findPOIsWithNearby(targetPOIs, nearbyPOIs, maxDistance)
    /\ proxPc' = "done"
    /\ UNCHANGED <<targetPOIs, nearbyPOIs, maxDistance>>
    /\ UNCHANGED nonProxVars

(***************************************************************************)
(* filterPOIsByAttributes(pois, requestedAttributes)                       *)
(***************************************************************************)
\* the comparison without its second half
AttributeContains(reqAttr, poiAttr) ==
    includes(toLowerCase(poiAttr), toLowerCase(reqAttr))
\* "poiLower.includes(reqLower) || reqLower.includes(poiLower)"
AttributeMatches(reqAttr, poiAttr) ==
    LET reqLower == toLowerCase(reqAttr)
        poiLower == toLowerCase(poiAttr)
    IN  includes(poiLower, reqLower) \/ includes(reqLower, poiLower)

filterPOIsByAttributes(ps, requested) ==
    IF Len(requested) = 0 THEN ps
    ELSE SelectSeq(ps, LAMBDA poi :
            IF ~poi.attributes.present THEN FALSE
            ELSE \E r \in 1..Len(requested) :
                    \E a \in 1..Len(poi.attributes.tags) :
                        AttributeMatches(requested[r], poi.attributes.tags[a]))

W_Thai == <<"T","h","a","i">>
W_BBQ == <<"B","B","Q">>
W_Deli == <<"D","e","l","i">>
W_th == <<"t","h">>
W_bbqs == <<"b","b","q","s">>
W_veg == <<"v","e","g">>

NoTags == [Cafe2 EXCEPT !.attributes = [present |-> TRUE, tags |-> <<>>]]
ThaiCafe == [Cafe1 EXCEPT !.attributes = [present |-> TRUE, tags |-> <<W_Thai>>]]
BbqDeli == [Cafe3 EXCEPT !.attributes = [present |-> TRUE, tags |-> <<W_BBQ, W_Deli>>]]
FilterPool == {Park1, NoTags, ThaiCafe, BbqDeli}
TokenPool == {W_th, W_bbqs, W_veg, W_Deli, <<>>}

InitFilter ==
    /\ filterPois \in SeqsUpTo(FilterPool, MaxFilterPois)
    /\ requestedAttributes \in SeqsUpTo(TokenPool, MaxReqAttrs)
    /\ filtered = <<>>
    /\ filterPc = "ready"

FilterIdle ==
    /\ filterPois = <<>>
    /\ requestedAttributes = <<>>
    /\ filtered = <<>>
    /\ filterPc = "idle"

FilterPOIsByAttributes ==
    /\ filterPc = "ready"
    /\ filtered' = filterPOIsByAttributes(filterPois, requestedAttributes)
    /\ filterPc' = "done"
    /\ UNCHANGED <<filterPois, requestedAttributes>>
    /\ UNCHANGED nonFilterVars

(***************************************************************************)
(* Text of a query: String.prototype.trim, RegExp.prototype.test and       *)
(* String.prototype.match for the patterns of analyzeQuery.  The only      *)
(* white space in the model's queries is the space.                        *)
(***************************************************************************)
W_what == <<"w","h","a","t">>
W_What == <<"W","h","a","t">>
W_types == <<"t","y","p","e","s">>
W_supported == <<"s","u","p","p","o","r","t","e","d">>
W_list == <<"l","i","s","t">>
W_show == <<"s","h","o","w">>
W_valid == <<"v","a","l","i","d">>
W_available == <<"a","v","a","i","l","a","b","l","e">>
W_which == <<"w","h","i","c","h">>
W_can == <<"c","a","n">>
W_search == <<"s","e","a","r","c","h">>
W_poi == <<"p","o","i">>
W_with == <<"w","i","t","h">>
W_having == <<"h","a","v","i","n","g">>
W_that_have == <<"t","h","a","t"," ","h","a","v","e">>
W_nearby == <<"n","e","a","r","b","y">>
W_near == <<"n","e","a","r">>
W_close_to == <<"c","l","o","s","e"," ","t","o">>
W_around == <<"a","r","o","u","n","d">>
W_find == <<"f","i","n","d">>
W_get == <<"g","e","t">>
W_display == <<"d","i","s","p","l","a","y">>
W_locate == <<"l","o","c","a","t","e">>
W_give == <<"g","i","v","e">>
W_tell == <<"t","e","l","l">>
W_me == <<"m","e">>
W_the == <<"t","h","e">>
W_a == <<"a">>
W_an == <<"a","n">>
W_parks == <<"p","a","r","k","s">>
W_thai == <<"t","h","a","i">>
W_cozy == <<"c","o","z","y">>
W_POI == <<"P","O","I">>
Sp == <<" ">>

IsSpace(c) == c = " "

\* the least index from i on that holds no space, Len(s) + 1 if there is none
SkipSpaces(s, i) ==
    IF \E j \in i..Len(s) : ~IsSpace(s[j])
    THEN CHOOSE j \in i..Len(s) : ~IsSpace(s[j]) /\ \A k \in i..(j - 1) : IsSpace(s[k])
    ELSE Len(s) + 1

\* String.prototype.trim
trim(s) ==
    LET first == SkipSpaces(s, 1)
    IN  IF first > Len(s) THEN <<>>
        ELSE LET last == CHOOSE j \in first..Len(s) :
                             ~IsSpace(s[j]) /\ \A k \in (j + 1)..Len(s) : IsSpace(s[k])
             IN  SubSeq(s, first, last)

\* "!query || query.trim().length === 0"
IsBlank(query) == query = <<>> \/ Len(trim(query)) = 0

\* the literal lit, written in lower case, stands at index i of s (flag i)
LitAt(s, i, lit) ==
    /\ i >= 1
    /\ i + Len(lit) - 1 <= Len(s)
    /\ \A k \in 1..Len(lit) : ToLowerChar(s[i + k - 1]) = lit[k]

\* a pattern lit1.*lit2.*...: the literals occur in s from index i on, in
\* this order and without overlap
RECURSIVE InOrder(_, _, _)
InOrder(s, i, lits) ==
    IF lits = <<>> THEN TRUE
    ELSE /\ \E k \in i..Len(s) : LitAt(s, k, lits[1])
         /\ LET k == CHOOSE k \in i..Len(s) :
                        LitAt(s, k, lits[1]) /\ \A j \in i..(k - 1) : ~LitAt(s, j, lits[1])
            IN  InOrder(s, k + Len(lits[1]), Tail(lits))

typeRequestPatterns ==
    << <<W_what, W_types, W_supported>>,
       <<W_list, W_types>>,
       <<W_show, W_types>>,
       <<W_valid, W_types>>,
       <<W_available, W_types>>,
       <<W_which, W_types>>,
       <<W_what, W_can, W_search>>,
       <<W_what, W_poi>> >>

\* "typeRequestPatterns.some(pattern => pattern.test(query))"
isTypeRequest(query) ==
    \E p \in 1..Len(typeRequestPatterns) : InOrder(query, 1, typeRequestPatterns[p])

\* A proximity pattern (.+?)\s+lit1\s+...\s+litn\s+(.+) is the alternatives
\* of its literals.  The first group starts at index 1 and is the shortest
\* that lets the rest match; the second group runs to the end of the query.
proximityPatterns ==
    << << <<W_with, W_nearby>>, <<W_having, W_nearby>>, <<W_that_have, W_nearby>> >>,
       << <<W_near>> >>,
       << <<W_close_to>> >>,
       << <<W_around>> >> >>

\* with white space at index i, the index at which the second group starts
\* when \s+lit1...\s+litn\s+(.+) matches s from i on, and 0 when it does not
RECURSIVE TailFrom(_, _, _)
TailFrom(s, i, lits) ==
    IF i > Len(s) \/ ~IsSpace(s[i]) THEN 0
    ELSE LET j == SkipSpaces(s, i)
         IN  IF lits = <<>>
             THEN IF j <= Len(s) THEN j
                  ELSE IF j - i >= 2 THEN Len(s)
                  ELSE 0
             ELSE IF LitAt(s, j, lits[1])
                  THEN TailFrom(s, j + Len(lits[1]), Tail(lits))
                  ELSE 0

TailOf(s, e, alternatives) ==
    IF \E a \in 1..Len(alternatives) : TailFrom(s, e + 1, alternatives[a]) # 0
    THEN LET a == CHOOSE a \in 1..Len(alternatives) :
                      /\ TailFrom(s, e + 1, alternatives[a]) # 0
                      /\ \A b \in 1..(a - 1) : TailFrom(s, e + 1, alternatives[b]) = 0
         IN  TailFrom(s, e + 1, alternatives[a])
    ELSE 0

NoMatch == [found |-> FALSE, left |-> <<>>, right |-> <<>>]

\* "query.match(pattern)": match[1] and match[2]
match(query, alternatives) ==
    IF \E e \in 1..Len(query) : TailOf(query, e, alternatives) # 0
    THEN LET e == CHOOSE e \in 1..Len(query) :
                      /\ TailOf(query, e, alternatives) # 0
                      /\ \A d \in 1..(e - 1) : TailOf(query, d, alternatives) = 0
         IN  [found |-> TRUE,
              left |-> SubSeq(query, 1, e),
              right |-> SubSeq(query, TailOf(query, e, alternatives), Len(query))]
    ELSE NoMatch

\* the loop over proximityPatterns stops at the first pattern that matches
FirstProximityMatch(query) ==
    IF \E p \in 1..Len(proximityPatterns) : match(query, proximityPatterns[p]).found
    THEN LET p == CHOOSE p \in 1..Len(proximityPatterns) :
                      /\ match(query, proximityPatterns[p]).found
                      /\ \A r \in 1..(p - 1) : ~match(query, proximityPatterns[r]).found
         IN  match(query, proximityPatterns[p])
    ELSE NoMatch

(***************************************************************************)
(* LMServiceImpl.matchNounsToTypes and the filters that turn adjectives    *)
(* into attributes.  supportedTypes is the list handed out by              *)
(* dataService.getSupportedTypes(): values as they came out of the         *)
(* dataset.  A method call on a value that is no string throws a           *)
(* TypeError.                                                              *)
(***************************************************************************)
\* "type.replace('_', ' ')": the first underscore only
replaceUnderscore(s) ==
    IF \E i \in 1..Len(s) : s[i] = "_"
    THEN LET i == CHOOSE i \in 1..Len(s) : s[i] = "_" /\ \A j \in 1..(i - 1) : s[j] # "_"
         IN  [s EXCEPT ![i] = " "]
    ELSE s

\* "replace(/s$/, '')"
dropFinalS(s) == IF s # <<>> /\ s[Len(s)] = "s" THEN SubSeq(s, 1, Len(s) - 1) ELSE s

\* "adjLower.startsWith(verb + ' ')"
startsWith(s, prefix) == Len(prefix) <= Len(s) /\ SubSeq(s, 1, Len(prefix)) = prefix

\* the condition of the if in the inner loop of matchNounsToTypes
NounMatches(noun, type) ==
    LET typeNormalized == toLowerCase(replaceUnderscore(type))
        typeSingular == dropFinalS(typeNormalized)
        nounSingular == dropFinalS(noun)
    IN  \/ noun = typeNormalized
        \/ noun = toLowerCase(type)
        \/ nounSingular = typeSingular
        \/ includes(noun, typeNormalized)
        \/ includes(typeNormalized, noun)

\* the callback of "getSupportedTypes().some(...)" in the adjective filters
AdjectiveIsType(adjLower, type) ==
    LET typeNormalized == toLowerCase(replaceUnderscore(type))
        typeSingular == dropFinalS(typeNormalized)
        adjSingular == dropFinalS(adjLower)
    IN  \/ adjLower = typeNormalized
        \/ adjLower = toLowerCase(type)
        \/ adjSingular = typeSingular

\* The inner loop of matchNounsToTypes: the index of the first type that
\* matches the noun, 0 when there is none, and -1 when the loop comes to a
\* type that is no string first.
RECURSIVE ScanNoun(_, _, _)
ScanNoun(noun, supportedTypes_, k) ==
    IF k > Len(supportedTypes_) THEN 0
    ELSE IF typeof(supportedTypes_[k]) # "string" THEN -1
    ELSE IF NounMatches(noun, supportedTypes_[k].s) THEN k
    ELSE ScanNoun(noun, supportedTypes_, k + 1)

\* "getSupportedTypes().some(...)" in the adjective filters, likewise
RECURSIVE ScanAdjective(_, _, _)
ScanAdjective(adjLower, supportedTypes_, k) ==
    IF k > Len(supportedTypes_) THEN 0
    ELSE IF typeof(supportedTypes_[k]) # "string" THEN -1
    ELSE IF AdjectiveIsType(adjLower, supportedTypes_[k].s) THEN k
    ELSE ScanAdjective(adjLower, supportedTypes_, k + 1)

\* "[...new Set(matchedTypes)]"
RECURSIVE Dedup(_, _)
Dedup(list, seen) ==
    IF list = <<>> THEN seen
    ELSE IF \E i \in 1..Len(seen) : seen[i] = Head(list)
    THEN Dedup(Tail(list), seen)
    ELSE Dedup(Tail(list), Append(seen, Head(list)))

RECURSIVE MatchedFrom(_, _, _)
MatchedFrom(nouns, supportedTypes_, i) ==
    IF i > Len(nouns) THEN <<>>
    ELSE LET k == ScanNoun(nouns[i], supportedTypes_, 1)
         IN  (IF k > 0 THEN <<supportedTypes_[k]>> ELSE <<>>)
                 \o MatchedFrom(nouns, supportedTypes_, i + 1)

\* matchNounsToTypes(nouns, supportedTypes): whether it throws, else the list
matchNounsToTypes(nouns, supportedTypes_) ==
    IF \E i \in 1..Len(nouns) : ScanNoun(nouns[i], supportedTypes_, 1) = -1
    THEN [threw |-> TRUE, types |-> <<>>]
    ELSE [threw |-> FALSE, types |-> Dedup(MatchedFrom(nouns, supportedTypes_, 1), <<>>)]

commonVerbs == <<W_show, W_find, W_get, W_list, W_display, W_search, W_locate, W_give, W_tell>>
commonQueryWords == <<W_show, W_find, W_get, W_list, W_display, W_search, W_locate, W_give,
                      W_tell, W_me, W_the, W_a, W_an>>

\* the first test of the filter callbacks of the proximity branch
IsCommonVerb(adjLower) ==
    \E v \in 1..Len(commonVerbs) :
        adjLower = commonVerbs[v] \/ startsWith(adjLower, commonVerbs[v] \o Sp)

\* the first two tests of the filter callback of the simple branch
IsCommonQueryWord(adjLower) ==
    \/ \E w \in 1..Len(commonQueryWords) : adjLower = commonQueryWords[w]
    \/ \E w \in 1..Len(commonQueryWords) : includes(adjLower, commonQueryWords[w])

\* "adjectives.filter(adj => ...)", given which adjectives the first tests
\* of the callback let through: whether a callback throws, else the list
attributesOf(adjectives, passes, supportedTypes_) ==
    LET lower == [i \in 1..Len(adjectives) |-> toLowerCase(adjectives[i])]
        reached == {i \in 1..Len(adjectives) : passes[i]}
        kept == {i \in reached : ScanAdjective(lower[i], supportedTypes_, 1) = 0}
        Pick[i \in 0..Len(adjectives)] ==
            IF i = 0 THEN <<>>
            ELSE IF i \in kept THEN Append(Pick[i - 1], adjectives[i])
            ELSE Pick[i - 1]
    IN  IF \E i \in reached : ScanAdjective(lower[i], supportedTypes_, 1) = -1
        THEN [threw |-> TRUE, list |-> <<>>]
        ELSE [threw |-> FALSE, list |-> Pick[Len(adjectives)]]

\* the filter of the proximity branch
segmentAttributes(adjectives, supportedTypes_) ==
    attributesOf(adjectives,
                 [i \in 1..Len(adjectives) |-> ~IsCommonVerb(toLowerCase(adjectives[i]))],
                 supportedTypes_)

\* the filter of the simple branch
actualAdjectivesOf(adjectives, supportedTypes_) ==
    attributesOf(adjectives,
                 [i \in 1..Len(adjectives) |-> ~IsCommonQueryWord(toLowerCase(adjectives[i]))],
                 supportedTypes_)

(***************************************************************************)
(* The ValidationResult of analyzeQuery.  A field that the source leaves   *)
(* out is FALSE, Undefined or the empty list here; attributes and          *)
(* nearbyAttributes are the cuisine lists.                                 *)
(***************************************************************************)
Invalid ==
    [isValid |-> FALSE, types |-> <<>>, isTypeRequest |-> FALSE, isProximityQuery |-> FALSE,
     targetType |-> Undefined, nearbyType |-> Undefined,
     attributes |-> <<>>, nearbyAttributes |-> <<>>]

TypeRequest == [Invalid EXCEPT !.isValid = TRUE, !.isTypeRequest = TRUE]

\* the condition on the two sides that abandons nothing
EitherResolved(targetType, nearbyType) == Truthy(targetType) \/ Truthy(nearbyType)
\* "isProximityQuery && targetType && nearbyType", inside the matched branch
BothResolved(targetType, nearbyType) == Truthy(targetType) /\ Truthy(nearbyType)

\* what analyzeQuery does once both segments are extracted: lines 163-230.
\* kind is "caught" (the catch block), "proximity" (the return of line 220)
\* or "simple" (it goes on to extract from the whole query).
afterSegments(targetPart, nearbyPart, supportedTypes_) ==
    LET targetTypes == matchNounsToTypes(targetPart.nouns, supportedTypes_)
        nearbyTypes == matchNounsToTypes(nearbyPart.nouns, supportedTypes_)
        targetType == IF Len(targetTypes.types) > 0 THEN targetTypes.types[1] ELSE Undefined
        nearbyType == IF Len(nearbyTypes.types) > 0 THEN nearbyTypes.types[1] ELSE Undefined
        targetAttributes == segmentAttributes(targetPart.adjectives, supportedTypes_)
        nearbyAttributes == segmentAttributes(nearbyPart.adjectives, supportedTypes_)
    IN  IF \/ targetTypes.threw \/ nearbyTypes.threw
           \/ targetAttributes.threw \/ nearbyAttributes.threw
        THEN [kind |-> "caught", result |-> Invalid]
        ELSE IF BothResolved(targetType, nearbyType)
        THEN [kind |-> "proximity",
              result |-> [isValid |-> TRUE, types |-> <<targetType, nearbyType>>,
                          isTypeRequest |-> FALSE, isProximityQuery |-> TRUE,
                          targetType |-> targetType, nearbyType |-> nearbyType,
                          attributes |-> targetAttributes.list,
                          nearbyAttributes |-> nearbyAttributes.list]]
        ELSE [kind |-> "simple", result |-> Invalid]

\* what analyzeQuery does once the whole query is extracted: lines 238-291
afterWhole(part, supportedTypes_) ==
    LET types == matchNounsToTypes(part.nouns, supportedTypes_)
        actualAdjectives == actualAdjectivesOf(part.adjectives, supportedTypes_)
    IN  IF types.threw \/ actualAdjectives.threw
        THEN Invalid
        ELSE [Invalid EXCEPT !.isValid = Len(types.types) > 0,
                             !.types = types.types,
                             !.attributes = actualAdjectives.list]

(***************************************************************************)
(* LMServiceImpl.analyzeQuery as a process.  It stops at each await of     *)
(* extractNounsAndAdjectives; what the language model answers is not       *)
(* determined by the program, so the outcome of an extraction is an input. *)
(* A throw of the model is caught inside extractNounsAndAdjectives, which  *)
(* then returns two empty lists.                                           *)
(***************************************************************************)
Nothing == [nouns |-> <<>>, adjectives |-> <<>>, threw |-> FALSE]
Threw == [Nothing EXCEPT !.threw = TRUE]
Extracted(nouns, adjectives) == [nouns |-> nouns, adjectives |-> adjectives, threw |-> FALSE]

\* an invocation before its first statement
Idle(query) ==
    [query |-> query, pc |-> "idle", text |-> <<>>, rdy |-> FALSE, prox |-> FALSE,
     target |-> Nothing, last |-> Nothing, threw |-> FALSE, ext |-> 0,
     result |-> Invalid]

(***************************************************************************)
(* The queries of the model.                                               *)
(***************************************************************************)
Q_list == W_list \o Sp \o W_types
Q_listNear == W_list \o Sp \o W_types \o Sp \o W_near \o Sp \o W_park
Q_whatPoi == W_What \o Sp \o W_POI
Q_near == W_park \o Sp \o W_near \o Sp \o W_cafe
Q_with == W_cafe \o Sp \o W_with \o Sp \o W_nearby \o Sp \o W_park
Q_find == W_find \o Sp \o W_park
Q_nearOnly == W_near \o Sp \o W_park

QueryPool == {<<>>, Sp \o Sp, Q_list, Q_listNear, Q_whatPoi, Q_near, Q_with, Q_find,
              Q_nearOnly}
QueryTexts == {<<>>, Sp, Q_list, Q_near}
\* the queries handleTypeClick builds for the types park and cafe
ShellTexts == {W_show \o Sp \o W_me \o Sp \o W_park, W_show \o Sp \o W_me \o Sp \o W_cafe}

\* the order of the steps, were the proximity patterns tried first
proximityBeforeTypes(query) ==
    IF IsBlank(query) THEN "blank"
    ELSE IF FirstProximityMatch(query).found THEN "proximity"
    ELSE IF isTypeRequest(query) THEN "types"
    ELSE "simple"
\* which branch analyzeQuery takes before it calls the model: lines 108-233
firstStep(query) ==
    IF IsBlank(query) THEN "blank"
    ELSE IF isTypeRequest(query) THEN "types"
    ELSE IF FirstProximityMatch(query).found THEN "proximity"
    ELSE "simple"

\* analyzeQuery(query) up to its first await or its return; text is the
\* argument of the extraction call that is pending, rdy is what
\* "this.ready && this.model" was when that call was made, ext counts the
\* calls of extractNounsAndAdjectives
\* firstStep and the match of the first proximity pattern that matches,
\* evaluated once for each query of the model
FirstStepOf == [query \in QueryPool \cup QueryTexts \cup ShellTexts |-> firstStep(query)]
SegmentsOf == [query \in QueryPool \cup QueryTexts \cup ShellTexts |-> FirstProximityMatch(query)]

called(query, isReady) ==
    LET step == FirstStepOf[query]
    IN  IF step = "blank" THEN [Idle(query) EXCEPT !.pc = "done"]
        ELSE IF step = "types" THEN [Idle(query) EXCEPT !.pc = "done", !.result = TypeRequest]
        ELSE IF step = "proximity"
        THEN [Idle(query) EXCEPT !.pc = "target", !.prox = TRUE, !.rdy = isReady, !.ext = 1,
                                 !.text = SegmentsOf[query].left]
        ELSE [Idle(query) EXCEPT !.pc = "simple", !.rdy = isReady, !.ext = 1, !.text = query]

\* analyzeQuery from the return of the pending extraction call to the next
\* await or the return.  target is the first segment's extraction while the
\* second is awaited; last is the extraction that returned last and threw
\* tells whether the model has thrown in a call of this invocation: the
\* program keeps neither.
returned(an, part, supportedTypes_, isReady) ==
    LET seen == [an EXCEPT !.last = part, !.threw = @ \/ part.threw]
    IN  IF an.pc = "target"
        THEN [seen EXCEPT !.target = part, !.pc = "nearby", !.rdy = isReady, !.ext = @ + 1,
                          !.text = SegmentsOf[an.query].right]
        ELSE IF an.pc = "nearby"
        THEN LET after == afterSegments(an.target, part, supportedTypes_)
             IN  IF after.kind = "simple"
                 THEN [seen EXCEPT !.target = Nothing, !.pc = "simple", !.rdy = isReady,
                                   !.ext = @ + 1, !.text = an.query]
                 ELSE [seen EXCEPT !.target = Nothing, !.pc = "done", !.text = <<>>,
                                   !.result = after.result]
        ELSE [seen EXCEPT !.pc = "done", !.text = <<>>,
                          !.result = afterWhole(part, supportedTypes_)]

\* what an extraction call can return: "if (!this.ready || !this.model)"
CanReturn(an, part, outcomes) ==
    IF an.rdy THEN part \in outcomes ELSE part = Nothing

(***************************************************************************)
(* QueryServiceImpl.processQuery: the QueryResult it returns.  A message   *)
(* is its fixed text with the values the template puts into it.            *)
(***************************************************************************)
Message(text) == [text |-> text, names |-> <<>>, attributes |-> <<>>, miles |-> 0]

NoResult ==
    [type |-> "pending", message |-> Message(""), examples |-> <<>>, types |-> <<>>,
     pois |-> <<>>, poisWithNearby |-> <<>>, targetType |-> Undefined,
     nearbyType |-> Undefined, maxDistance |-> 0]

ErrorResult(text) == [NoResult EXCEPT !.type = "error", !.message = Message(text)]

EnterAQuery == "Please enter a query to search for POIs."
StillInitializing == "AI service is still initializing. Please wait a moment and try again."
NoValidTypes == "I couldn't identify any valid POI types in your query."
TimedOut == "Query processing timed out. Please try again."
GenericFailure == "An error occurred while processing your query. Please try again."

\* the errors that reach the catch block of processQuery
TypeError == [app |-> FALSE, code |-> "TypeError", userMessage |-> ""]
\* validateQueryWithTimeout: the AppError the timer rejects with
TimeoutError == [app |-> TRUE, code |-> "QUERY_TIMEOUT", userMessage |-> TimedOut]
\* the AppError a failed load rejects with
LoadError(code) ==
    [app |-> TRUE, code |-> code,
     userMessage |-> IF code = "DATA_VALIDATION_ERROR"
                     THEN "POI data is malformed. Please contact support."
                     ELSE "Failed to load POI data. Please refresh the page."]

\* a catch block that throws the error on
rethrown(error) == [NoResult EXCEPT !.type = "rejected"]
\* the catch block of processQuery
caught(error) ==
    IF error.app /\ error.code = "MODEL_TIMEOUT" THEN ErrorResult(error.userMessage)
    ELSE IF error.app THEN ErrorResult(error.userMessage)
    ELSE ErrorResult(GenericFailure)

\* getDefaultSuggestions: "types.slice(0, 3).map(t => t.replace('_', ' '))"
exampleTypes(types) ==
    [k \in 1..(IF Len(types) < 3 THEN Len(types) ELSE 3) |-> replaceUnderscore(types[k].s)]
SuggestionsThrow(types) ==
    \E k \in 1..Len(types) : k <= 3 /\ typeof(types[k]) # "string"

\* a return of Suggestions with this.getDefaultSuggestions(), inside the try
DefaultSuggestions(message, types) ==
    IF SuggestionsThrow(types) THEN caught(TypeError)
    ELSE [NoResult EXCEPT !.type = "suggestions", !.message = message,
                          !.examples = exampleTypes(types)]

Texts(values) == [k \in 1..Len(values) |-> values[k].s]

\* the default of the parameter maxDistance of findPOIsWithNearby
defaultMaxDistance == nearbyDistanceMiles

\* processQuery, lines 409-491: the proximity query
proximityQuery(v) ==
    LET targetFound == queryPOIs(<<v.targetType.s>>)
        nearbyFound == queryPOIs(<<v.nearbyType.s>>)
        targets == IF Len(v.attributes) > 0
                   THEN filterPOIsByAttributes(targetFound, v.attributes)
                   ELSE targetFound
        nearby == IF Len(v.nearbyAttributes) > 0
                  THEN filterPOIsByAttributes(nearbyFound, v.nearbyAttributes)
                  ELSE nearbyFound
        poisWithNearby == findPOIsWithNearby(targets, nearby, defaultMaxDistance)
        targetDisplay == replaceUnderscore(v.targetType.s)
        nearbyDisplay == replaceUnderscore(v.nearbyType.s)
    IN  IF Len(poisWithNearby) = 0
        THEN [NoResult EXCEPT
                 !.type = "suggestions",
                 !.message = [text |-> "No targets found with nearby within miles",
                              names |-> <<targetDisplay, nearbyDisplay>>,
                              attributes |-> <<v.attributes, v.nearbyAttributes>>,
                              miles |-> nearbyDistanceMiles],
                 !.examples = <<targetDisplay, nearbyDisplay>>]
        ELSE [NoResult EXCEPT
                 !.type = "grouped",
                 !.poisWithNearby = poisWithNearby,
                 !.targetType = v.targetType,
                 !.nearbyType = v.nearbyType,
                 !.maxDistance = nearbyDistanceMiles]

HasAttributes(poi) == poi.attributes.present /\ Len(poi.attributes.tags) > 0

\* the regular query, were it to filter whenever attributes are requested
alwaysFiltered(v, types) ==
    LET found == queryPOIs(Texts(v.types))
        kept == IF Len(v.attributes) > 0
                THEN filterPOIsByAttributes(found, v.attributes)
                ELSE found
    IN  IF Len(kept) = 0
        THEN DefaultSuggestions([Message("No types found") EXCEPT !.names = Texts(v.types)],
                                types)
        ELSE [NoResult EXCEPT !.type = "success", !.pois = kept]

\* processQuery, lines 493-570: the regular query
regularQuery(v, types) ==
    LET found == queryPOIs(Texts(v.types))
        poisWithAttributes == SelectSeq(found, HasAttributes)
        kept == IF Len(v.attributes) > 0 /\ Len(poisWithAttributes) > 0
                THEN SelectSeq(found, LAMBDA poi :
                        /\ HasAttributes(poi)
                        /\ \E r \in 1..Len(v.attributes) :
                              \E a \in 1..Len(poi.attributes.tags) :
                                  AttributeMatches(v.attributes[r], poi.attributes.tags[a]))
                ELSE found
    IN  IF Len(kept) = 0
        THEN DefaultSuggestions([Message("No types found") EXCEPT !.names = Texts(v.types)],
                                types)
        ELSE [NoResult EXCEPT !.type = "success", !.pois = kept]

\* processQuery after "await dataService.loadPOIs()" has returned
afterLoad(v, types) ==
    IF v.isProximityQuery /\ Truthy(v.targetType) /\ Truthy(v.nearbyType)
    THEN proximityQuery(v)
    ELSE regularQuery(v, types)

\* processQuery between the validation result and the call of loadPOIs:
\* the result it returns, or NoResult when it goes on to load
afterValidation(v, types) ==
    IF v.isTypeRequest THEN [NoResult EXCEPT !.type = "types", !.types = types]
    ELSE IF ~v.isValid \/ Len(v.types) = 0
    THEN DefaultSuggestions(Message(NoValidTypes), types)
    ELSE NoResult

\* processQuery, were it not to ask lmService.isReady()
withoutReadyCheck(query, isReady, types) ==
    IF IsBlank(query) THEN DefaultSuggestions(Message(EnterAQuery), types)
    ELSE NoResult

\* processQuery up to the call of validateQueryWithTimeout: the result it
\* returns, or NoResult when it goes on to the validation
beforeValidation(query, isReady, types) ==
    IF IsBlank(query) THEN DefaultSuggestions(Message(EnterAQuery), types)
    ELSE IF ~isReady THEN ErrorResult(StillInitializing)
    ELSE NoResult

(***************************************************************************)
(* The invocations of analyzeQuery and processQuery.  A processQuery call  *)
(* is at the await of validateQueryWithTimeout ("validating"), at the      *)
(* await of loadPOIs ("loading") or has returned ("done").  The            *)
(* continuation of an await runs in the step that settles the awaited      *)
(* promise when that step is the return of an extraction; after a load it  *)
(* is a step of its own, which no other step can overtake with any effect  *)
(* on it.  The timer of a call is not cleared; when it fires after the     *)
(* race is settled nothing changes, and there is no step for that.         *)
(***************************************************************************)
QueryIdle ==
    /\ ready = FALSE
    /\ analyses = <<>>
    /\ queries = <<>>
    /\ sqlQueries = <<>>

\* the race, were it to take an analysis result after it is settled
RaceStaysOpen(call) == call.pc \in {"validating", "done"}
\* "Promise.race([validationPromise, timeoutPromise])" is not settled
Racing(call) == call.pc = "validating"

Waiting(a) == {i \in DOMAIN queries : Racing(queries[i]) /\ queries[i].an = a}

Returns(i, result) ==
    queries' = [queries EXCEPT ![i] = [@ EXCEPT !.pc = "done", !.result = result]]

\* processQuery from the validation result v on, to its return or to the
\* await of loadPOIs; a call on a loaded repository gets a resolved promise
\* and goes on at once
Resume(i, v) ==
    LET early == afterValidation(v, TypesList)
    IN  IF early # NoResult
        THEN /\ Returns(i, early)
             /\ UNCHANGED dataVars
        ELSE /\ loadPOIs("")
             /\ IF isLoaded
                THEN Returns(i, afterLoad(v, TypesList))
                ELSE queries' = [queries EXCEPT ![i] =
                                    [@ EXCEPT !.pc = "loading", !.load = Len(calls) + 1]]

\* lmService.initialize() completes
ModelLoads ==
    /\ ~ready
    /\ ready' = TRUE
    /\ UNCHANGED <<analyses, queries, dataVars, matcherVars, shellVars, sqlQueries>>

\* a direct call of lmService.analyzeQuery
AnalyzeQuery(a) ==
    /\ a \in DOMAIN analyses
    /\ analyses[a].pc = "idle"
    /\ analyses' = [analyses EXCEPT ![a] = called(analyses[a].query, ready)]
    /\ UNCHANGED <<ready, queries, dataVars, matcherVars, shellVars, sqlQueries>>

\* the extraction call that the analysis a awaits returns part
ExtractReturns(a, part, outcomes) ==
    /\ a \in DOMAIN analyses
    /\ analyses[a].pc \in {"target", "nearby", "simple"}
    /\ CanReturn(analyses[a], part, outcomes)
    /\ LET an == returned(analyses[a], part, TypesList, ready)
       IN  /\ analyses' = [analyses EXCEPT ![a] = an]
           /\ IF an.pc = "done" /\ Waiting(a) # {}
              THEN Resume(CHOOSE i \in Waiting(a) : TRUE, an.result)
              ELSE UNCHANGED <<queries, dataVars>>
    /\ UNCHANGED <<ready, matcherVars, shellVars, sqlQueries>>

\* queryService.processQuery(query), to its first await or its return
processQuery(query) ==
    LET early == beforeValidation(query, ready, TypesList)
        call == [query |-> query, pc |-> "done", an |-> 0, load |-> 0, result |-> early]
    IN  IF early # NoResult
        THEN /\ queries' = Append(queries, call)
             /\ analyses' = analyses
        ELSE /\ analyses' = Append(analyses, called(query, ready))
             /\ queries' = Append(queries,
                    [call EXCEPT !.pc = "validating", !.an = Len(analyses) + 1])

\* a call of processQuery by a caller other than the application shell
ProcessQuery(query) ==
    /\ Len(queries) < MaxQueries
    /\ processQuery(query)
    /\ UNCHANGED <<ready, dataVars, matcherVars, shellVars, sqlQueries>>

\* the 3000 ms timer of validateQueryWithTimeout fires before analyzeQuery
\* has returned: the race rejects, and the catch block of processQuery runs
TimerFires(i) ==
    /\ i \in DOMAIN queries
    /\ queries[i].pc = "validating"
    /\ analyses[queries[i].an].pc # "done"
    /\ Returns(i, caught(TimeoutError))
    /\ UNCHANGED <<ready, analyses, dataVars, matcherVars, shellVars, sqlQueries>>

\* analyzeQuery had returned without an await: processQuery goes on
Validated(i) ==
    /\ i \in DOMAIN queries
    /\ queries[i].pc = "validating"
    /\ analyses[queries[i].an].pc = "done"
    /\ Resume(i, analyses[queries[i].an].result)
    /\ UNCHANGED <<ready, analyses, matcherVars, shellVars, sqlQueries>>

\* the promise of loadPOIs that the call awaits is settled
Loaded(i) ==
    /\ i \in DOMAIN queries
    /\ queries[i].pc = "loading"
    /\ calls[queries[i].load].st # "pending"
    /\ IF calls[queries[i].load].st = "rejected"
       THEN Returns(i, caught(LoadError(calls[queries[i].load].err)))
       ELSE Returns(i, afterLoad(analyses[queries[i].an].result, TypesList))
    /\ UNCHANGED <<ready, analyses, dataVars, matcherVars, shellVars, sqlQueries>>

(***************************************************************************)
(* The QueryServiceImpl that answers from SQLite (the first one of the     *)
(* file).  Its processQuery validates as above; then the SQL that the      *)
(* model generates is run and the table it selects is converted.  The      *)
(* table is an input.  A row of a proximity table holds the columns of the *)
(* primary POI, those of the nearby POI, and distance_miles; a row of      *)
(* another table holds the columns of one POI.                             *)
(***************************************************************************)
\* "2.0 // maxDistance in miles", in micro-miles
sqlMaxDistance == 2000000

NoResultsFound == "No results found for your query in Richmond, VA."

\* an Error that is no AppError
PlainError == [app |-> FALSE, code |-> "Error", userMessage |-> ""]

\* "Math.round(distance * 100) / 100", on micro-miles
round2(distance) == ((distance + 5000) \div 10000) * 10000

\* "validationResult.targetType || ''"
orEmpty(value) == IF Truthy(value) THEN value ELSE Str(<<>>)

\* the rows with which "if (!grouped.has(primaryId))" makes a group
FirstOfGroup(values) ==
    SelectSeq([k \in 1..Len(values) |-> k],
              LAMBDA k : \A j \in 1..(k - 1) : values[j].primary.id # values[k].primary.id)

convertProximityResultsToGrouped(table, maxD) ==
    LET values == table.values
        first == FirstOfGroup(values)
        rowsOf(id) == SelectSeq(values, LAMBDA row : row.primary.id = id)
        nearbyOf(id) == [r \in 1..Len(rowsOf(id)) |->
                            [poi |-> rowsOf(id)[r].nearby,
                             distance |-> round2(rowsOf(id)[r].distance_miles)]]
    IN  [g \in 1..Len(first) |->
            [poi |-> values[first[g]].primary,
             nearbyPOIs |-> nearbyOf(values[first[g]].primary.id)]]

\* the POI objects are built without attributes
convertSQLResultsToPOIs(table) ==
    [k \in 1..Len(table.values) |-> [table.values[k] EXCEPT !.attributes = NoAttributes]]

\* processQuery (SQL mode) from the table that runQuery returned
sqlAnswer(v, table, types) ==
    IF table.proximity
    THEN LET poisWithNearby == convertProximityResultsToGrouped(table, sqlMaxDistance)
         IN  IF Len(poisWithNearby) = 0
             THEN DefaultSuggestions(Message(NoResultsFound), types)
             ELSE [NoResult EXCEPT !.type = "grouped",
                                   !.poisWithNearby = poisWithNearby,
                                   !.targetType = orEmpty(v.targetType),
                                   !.nearbyType = orEmpty(v.nearbyType),
                                   !.maxDistance = sqlMaxDistance]
    ELSE LET found == convertSQLResultsToPOIs(table)
         IN  IF Len(found) = 0
             THEN DefaultSuggestions(Message(NoResultsFound), types)
             ELSE [NoResult EXCEPT !.type = "success", !.pois = found]

SqlReturns(i, result) ==
    sqlQueries' = [sqlQueries EXCEPT ![i] = [@ EXCEPT !.pc = "done", !.result = result]]

\* processQuery (SQL mode), to its first await or its return
SqlProcessQuery(query) ==
    /\ Len(sqlQueries) < MaxSqlQueries
    /\ LET early == beforeValidation(query, ready, TypesList)
           call == [query |-> query, pc |-> "done", an |-> 0, result |-> early]
       IN  IF early # NoResult
           THEN /\ sqlQueries' = Append(sqlQueries, call)
                /\ analyses' = analyses
           ELSE /\ analyses' = Append(analyses, called(query, ready))
                /\ sqlQueries' = Append(sqlQueries,
                       [call EXCEPT !.pc = "validating", !.an = Len(analyses) + 1])
    /\ UNCHANGED <<ready, queries, dataVars, matcherVars, shellVars>>

\* the timer fires before analyzeQuery has returned
SqlTimerFires(i) ==
    /\ i \in DOMAIN sqlQueries
    /\ sqlQueries[i].pc = "validating"
    /\ analyses[sqlQueries[i].an].pc # "done"
    /\ SqlReturns(i, caught(TimeoutError))
    /\ UNCHANGED <<ready, analyses, queries, dataVars, matcherVars, shellVars>>

\* analyzeQuery has returned: the types are listed, or "await
\* sqliteService.init()" and "await lmService.generateSQL(...)" begin
SqlValidated(i) ==
    /\ i \in DOMAIN sqlQueries
    /\ sqlQueries[i].pc = "validating"
    /\ analyses[sqlQueries[i].an].pc = "done"
    /\ IF analyses[sqlQueries[i].an].result.isTypeRequest
       THEN SqlReturns(i, [NoResult EXCEPT !.type = "types", !.types = TypesList])
       ELSE sqlQueries' = [sqlQueries EXCEPT ![i] = [@ EXCEPT !.pc = "generating"]]
    /\ UNCHANGED <<ready, analyses, queries, dataVars, matcherVars, shellVars>>

\* the SQL is generated and run: runQuery returns table
SqlRuns(i, table) ==
    /\ i \in DOMAIN sqlQueries
    /\ sqlQueries[i].pc = "generating"
    /\ SqlReturns(i, sqlAnswer(analyses[sqlQueries[i].an].result, table, TypesList))
    /\ UNCHANGED <<ready, analyses, queries, dataVars, matcherVars, shellVars>>

\* init, generateSQL or runQuery throws
SqlThrows(i) ==
    /\ i \in DOMAIN sqlQueries
    /\ sqlQueries[i].pc = "generating"
    /\ SqlReturns(i, caught(PlainError))
    /\ UNCHANGED <<ready, analyses, queries, dataVars, matcherVars, shellVars>>

(***************************************************************************)
(* SqliteService: init(dataSourcePath) in the variant that fills the       *)
(* database from a POI file, and runQuery.  An invocation of init stops at *)
(* its awaits: the load of sql.js ("sqljs"), the fetch of schema.sql       *)
(* ("schema") and the fetch of the POI file ("pois").  dbs are the         *)
(* databases made so far: how often the schema was run on each and the     *)
(* files it was filled from; db is the handle the service holds, 0 for     *)
(* null.  used is history: the handles runQuery has run a query on.        *)
(***************************************************************************)
EmptyDb == [schema |-> 0, rows |-> <<>>]

SqliteIdle ==
    /\ initialized = FALSE
    /\ db = 0
    /\ dbs = <<>>
    /\ inits = <<>>
    /\ used = {}
    /\ localStorage = ""

InitInFlight(i) == inits[i].pc \in {"sqljs", "schema", "pois"}

\* init up to its first await; "if (this.initialized) return"
sqliteInit(dataSourcePath) ==
    /\ inits' = Append(inits, [pc |-> IF initialized THEN "resolved" ELSE "sqljs",
                               path |-> dataSourcePath, src |-> ""])
    /\ UNCHANGED <<initialized, db, dbs, used, localStorage>>

\* a call of init by processQuery or by the debug panel
SqliteInit(dataSourcePath) ==
    /\ Len(inits) < MaxInits
    /\ sqliteInit(dataSourcePath)
    /\ UNCHANGED nonSqliteVars

\* sql.js is loaded, or not: "this.db = new SQL.Database()", fetch('/schema.sql')
SqlJsLoads(i, ok) ==
    /\ i \in DOMAIN inits
    /\ inits[i].pc = "sqljs"
    /\ IF ok
       THEN /\ dbs' = Append(dbs, EmptyDb)
            /\ db' = Len(dbs) + 1
            /\ inits' = [inits EXCEPT ![i] = [@ EXCEPT !.pc = "schema"]]
       ELSE /\ inits' = [inits EXCEPT ![i] = [@ EXCEPT !.pc = "rejected"]]
            /\ UNCHANGED <<db, dbs>>
    /\ UNCHANGED <<initialized, used, localStorage>>
    /\ UNCHANGED nonSqliteVars

\* the schema arrives and is run on this.db, or a step throws; the source
\* of the POIs is chosen and fetched
SchemaRuns(i, ok) ==
    /\ i \in DOMAIN inits
    /\ inits[i].pc = "schema"
    /\ IF ok
       THEN /\ dbs' = [dbs EXCEPT ![db] = [@ EXCEPT !.schema = @ + 1]]
            /\ inits' = [inits EXCEPT ![i] =
                  [@ EXCEPT !.pc = "pois",
                            !.src = IF inits[i].path # "" THEN inits[i].path
                                    ELSE IF localStorage # "" THEN localStorage
                                    ELSE currentDataSource]]
       ELSE /\ inits' = [inits EXCEPT ![i] = [@ EXCEPT !.pc = "rejected"]]
            /\ dbs' = dbs
    /\ UNCHANGED <<initialized, db, used, localStorage>>
    /\ UNCHANGED nonSqliteVars

\* the POI file arrives and populateFromPoisJson fills this.db, or a step throws
PoisPopulate(i, ok) ==
    /\ i \in DOMAIN inits
    /\ inits[i].pc = "pois"
    /\ IF ok
       THEN /\ dbs' = [dbs EXCEPT ![db] = [@ EXCEPT !.rows = Append(@, inits[i].src)]]
            /\ initialized' = TRUE
            /\ inits' = [inits EXCEPT ![i] = [@ EXCEPT !.pc = "resolved"]]
       ELSE /\ inits' = [inits EXCEPT ![i] = [@ EXCEPT !.pc = "rejected"]]
            /\ UNCHANGED <<initialized, dbs>>
    /\ UNCHANGED <<db, used, localStorage>>
    /\ UNCHANGED nonSqliteVars

\* runQuery, called by a caller whose init has resolved
RunQuery ==
    /\ \E i \in DOMAIN inits : inits[i].pc = "resolved"
    /\ db # 0
    /\ used' = used \cup {db}
    /\ UNCHANGED <<initialized, db, dbs, inits, localStorage>>
    /\ UNCHANGED nonSqliteVars

AppIdle ==
    /\ queryResult = NoResult
    /\ isProcessing = FALSE
    /\ submissions = <<>>
    /\ currentQuery = <<>>

PwaIdle ==
    /\ deferredPrompt = 0
    /\ installCallbacks = <<>>
    /\ delivered = [cb \in 1..MaxCallbacks |-> [value |-> "none", unsubscribed |-> FALSE]]
    /\ promptEvents = <<>>
    /\ shows = <<>>
    /\ late = {}

(***************************************************************************)
(* LMServiceImpl.initialize and the LMProvider that calls it.  A run is    *)
(* one execution of the provider's effect: the 100 ms timer ("deferred"),  *)
(* initializeLM up to "await Promise.all" ("awaiting"), the 200 ms delay   *)
(* after a success ("showing"), and its end ("done", "failed").  interval  *)
(* is the state of the run's progressInterval.  priorFailed and fresh are  *)
(* history: whether initializationPromise was rejected when the run called *)
(* initialize, and whether that call ran the body of initialize.           *)
(***************************************************************************)
NoPromise == [st |-> "null", err |-> ""]

ProviderIdle ==
    /\ initializationPromise = NoPromise
    /\ pipelineLoads = 0
    /\ isLoading = TRUE
    /\ loadingProgress = 0
    /\ lmError = ""
    /\ runs = <<>>

ShellIdle == ProviderIdle /\ SqliteIdle /\ AppIdle /\ PwaIdle

Deferred == [pc |-> "deferred", interval |-> "none", load |-> 0, init |-> 0,
             priorFailed |-> FALSE, fresh |-> FALSE]

\* "if (this.initializationPromise) return this.initializationPromise"
ReturnsExisting(promise) == promise.st # "null"

\* the timer of the run r fires: initializeLM runs to "await Promise.all";
\* webgpu is what checkWebGPUAvailability finds, and pwa tells the variant
\* of the provider that also calls sqliteService.init()
RunStarts(r, webgpu, pwa) ==
    /\ r \in DOMAIN runs
    /\ runs[r].pc = "deferred"
    /\ isLoading' = TRUE
    /\ loadingProgress' = 0
    /\ lmError' = ""
    /\ LET body == ~ReturnsExisting(initializationPromise) /\ ~ready
       IN  /\ runs' = [runs EXCEPT ![r] =
                          [pc |-> "awaiting", interval |-> "running", load |-> Len(calls) + 1,
                           init |-> IF pwa THEN Len(inits) + 1 ELSE 0,
                           priorFailed |-> initializationPromise.st = "rejected",
                           fresh |-> body]]
           /\ IF ~body
              THEN UNCHANGED <<initializationPromise, pipelineLoads>>
              ELSE IF ~webgpu
              THEN /\ initializationPromise' = [st |-> "rejected", err |-> "WEBGPU_UNAVAILABLE"]
                   /\ pipelineLoads' = pipelineLoads
              ELSE /\ initializationPromise' = [st |-> "pending", err |-> ""]
                   /\ pipelineLoads' = pipelineLoads + 1
    /\ loadPOIs("")
    /\ IF pwa THEN sqliteInit("") ELSE UNCHANGED sqliteVars
    /\ UNCHANGED <<queryVars, matcherVars, appVars, pwaVars>>

\* "await pipeline(...)" settles
PipelineSettles(ok) ==
    /\ initializationPromise.st = "pending"
    /\ initializationPromise' = IF ok THEN [st |-> "resolved", err |-> ""]
                                ELSE [st |-> "rejected", err |-> "MODEL_LOAD_FAILED"]
    /\ ready' = ok
    /\ UNCHANGED <<pipelineLoads, isLoading, loadingProgress, lmError, runs>>
    /\ UNCHANGED <<analyses, queries, sqlQueries, dataVars, matcherVars>>
    /\ UNCHANGED <<sqliteVars, appVars, pwaVars>>

\* the promise of lmService.initialize() as the run sees it: a call on a
\* ready service without a promise gets a resolved one
LmPromise == IF initializationPromise.st = "null" THEN [st |-> "resolved", err |-> ""]
             ELSE initializationPromise

\* the promise of sqliteService.init() as the run r sees it; it rejects
\* with an Error that is no AppError, which the provider wraps
SqlitePromise(r) ==
    IF runs[r].init = 0 THEN [st |-> "resolved", err |-> ""]
    ELSE IF InitInFlight(runs[r].init) THEN [st |-> "pending", err |-> ""]
    ELSE [st |-> inits[runs[r].init].pc, err |-> "MODEL_LOAD_FAILED"]

\* Promise.all resolves: clearInterval, 100, and the 200 ms delay
RunSucceeds(r) ==
    /\ r \in DOMAIN runs
    /\ runs[r].pc = "awaiting"
    /\ LmPromise.st = "resolved"
    /\ calls[runs[r].load].st = "resolved"
    /\ SqlitePromise(r).st = "resolved"
    /\ runs' = [runs EXCEPT ![r] = [@ EXCEPT !.pc = "showing", !.interval = "cleared"]]
    /\ loadingProgress' = 100
    /\ UNCHANGED <<initializationPromise, pipelineLoads, isLoading, lmError>>
    /\ UNCHANGED <<queryVars, dataVars, matcherVars, sqliteVars, appVars, pwaVars>>

\* Promise.all rejects with err, the reason of a promise that is rejected:
\* the catch block, which leaves the interval as it is
RunFails(r, err) ==
    /\ r \in DOMAIN runs
    /\ runs[r].pc = "awaiting"
    /\ \/ LmPromise.st = "rejected" /\ err = LmPromise.err
       \/ calls[runs[r].load].st = "rejected" /\ err = calls[runs[r].load].err
       \/ SqlitePromise(r).st = "rejected" /\ err = SqlitePromise(r).err
    /\ runs' = [runs EXCEPT ![r] = [@ EXCEPT !.pc = "failed"]]
    /\ loadingProgress' = 0
    /\ lmError' = err
    /\ isLoading' = FALSE
    /\ UNCHANGED <<initializationPromise, pipelineLoads>>
    /\ UNCHANGED <<queryVars, dataVars, matcherVars, sqliteVars, appVars, pwaVars>>

\* the delay that shows 100% is over
RunShown(r) ==
    /\ r \in DOMAIN runs
    /\ runs[r].pc = "showing"
    /\ runs' = [runs EXCEPT ![r] = [@ EXCEPT !.pc = "done"]]
    /\ isLoading' = FALSE
    /\ UNCHANGED <<initializationPromise, pipelineLoads, loadingProgress, lmError>>
    /\ UNCHANGED <<queryVars, dataVars, matcherVars, sqliteVars, appVars, pwaVars>>

\* the interval of the run r ticks: "if (prev >= 80) return prev; return prev + 10"
Tick(r) ==
    /\ r \in DOMAIN runs
    /\ runs[r].interval = "running"
    /\ loadingProgress' = IF loadingProgress >= 80 THEN loadingProgress
                          ELSE loadingProgress + 10
    /\ UNCHANGED <<initializationPromise, pipelineLoads, isLoading, lmError, runs>>
    /\ UNCHANGED <<queryVars, dataVars, matcherVars, sqliteVars, appVars, pwaVars>>

\* a click on Retry, which App shows with an error that is no WebGPU error:
\* retryCount changes and the effect runs again
Retry ==
    /\ Len(runs) <= MaxRetries
    /\ ~isLoading
    /\ lmError \notin {"", "WEBGPU_UNAVAILABLE"}
    /\ runs' = Append([r \in DOMAIN runs |->
                          IF runs[r].pc = "deferred"
                          THEN [runs[r] EXCEPT !.pc = "cancelled"] ELSE runs[r]],
                      Deferred)
    /\ UNCHANGED <<initializationPromise, pipelineLoads, isLoading, loadingProgress, lmError>>
    /\ UNCHANGED <<queryVars, dataVars, matcherVars, sqliteVars, appVars, pwaVars>>

\* the continuation of "await Promise.all" is due for the run r: it is a
\* microtask, and runs before the next timer, answer or click is handled
Due(r) ==
    /\ runs[r].pc = "awaiting"
    /\ \/ LmPromise.st = "rejected"
       \/ calls[runs[r].load].st = "rejected"
       \/ SqlitePromise(r).st = "rejected"
       \/ /\ LmPromise.st = "resolved"
          /\ calls[runs[r].load].st = "resolved"
          /\ SqlitePromise(r).st = "resolved"
Quiet == \A r \in DOMAIN runs : ~Due(r)

(***************************************************************************)
(* AppContent: handleQuerySubmit and handleTypeClick, and the form of      *)
(* QueryInterface.  An invocation of handleQuerySubmit stops at "await     *)
(* queryService.processQuery(query)".                                      *)
(***************************************************************************)
Unexpected == "An unexpected error occurred. Please try again."

\* handleQuerySubmit(query) up to its await
handleQuerySubmit(query) ==
    /\ isProcessing' = TRUE
    /\ processQuery(query)
    /\ submissions' = Append(submissions, [q |-> Len(queries) + 1, pc |-> "awaiting"])
    /\ queryResult' = queryResult
    /\ UNCHANGED <<ready, sqlQueries, dataVars, matcherVars, providerVars, sqliteVars, pwaVars>>

\* QueryInterface.handleSubmit with the text query in the input, which is
\* disabled, like the button, while isProcessing
HandleSubmit(query) ==
    /\ Len(submissions) < MaxSubmits
    /\ ~isProcessing
    /\ trim(query) # <<>>
    /\ handleQuerySubmit(trim(query))
    /\ currentQuery' = currentQuery

\* handleTypeClick(type), for a type the displayed result lists
HandleTypeClick(type) ==
    /\ Len(submissions) < MaxSubmits
    /\ \E k \in DOMAIN queryResult.types : queryResult.types[k] = Str(type)
    /\ LET newQuery == W_show \o Sp \o W_me \o Sp \o replaceUnderscore(type)
       IN  /\ currentQuery' = newQuery
           /\ handleQuerySubmit(newQuery)

\* processQuery has settled for the invocation s: setQueryResult, and
\* "finally { setIsProcessing(false) }"
ShellContinues(s) ==
    /\ s \in DOMAIN submissions
    /\ submissions[s].pc = "awaiting"
    /\ queries[submissions[s].q].pc = "done"
    /\ LET result == queries[submissions[s].q].result
       IN  queryResult' = IF result.type = "rejected" THEN ErrorResult(Unexpected) ELSE result
    /\ isProcessing' = FALSE
    /\ submissions' = [submissions EXCEPT ![s] = [@ EXCEPT !.pc = "done"]]
    /\ currentQuery' = currentQuery
    /\ UNCHANGED <<queryVars, dataVars, matcherVars, providerVars, sqliteVars, pwaVars>>

\* no continuation of handleQuerySubmit is due: it is a microtask, and runs
\* before the next timer, answer or click is handled
QuietApp == \A s \in DOMAIN submissions :
                ~(submissions[s].pc = "awaiting" /\ queries[submissions[s].q].pc = "done")

(***************************************************************************)
(* PWAUtils: the handlers of beforeinstallprompt and appinstalled,         *)
(* showInstallPrompt, canInstall and onInstallAvailabilityChange.  An      *)
(* event is "captured" when the handler has stored it, "prompted" when     *)
(* prompt() was called on it, "chosen" when its userChoice has resolved,   *)
(* "consumed" when showInstallPrompt has completed for it, "installed"     *)
(* after appinstalled.  An invocation of showInstallPrompt stops at "await *)
(* prompt()" ("prompting") and at "await userChoice" ("choosing", with the *)
(* event whose userChoice it awaits).                                      *)
(***************************************************************************)
Callbacks == 1..MaxCallbacks
Items(list) == {list[k] : k \in DOMAIN list}

canInstall == deferredPrompt # 0

\* "this.installCallbacks.forEach(callback => callback(value))"
Notify(list, value) ==
    /\ delivered' = [cb \in Callbacks |->
                        IF cb \in Items(list) THEN [delivered[cb] EXCEPT !.value = value]
                        ELSE delivered[cb]]
    /\ late' = late \cup {cb \in Items(list) : delivered[cb].unsubscribed}

\* the handler of beforeinstallprompt
BeforeInstallPrompt ==
    /\ Len(promptEvents) < MaxEvents
    /\ promptEvents' = Append(promptEvents, "captured")
    /\ deferredPrompt' = Len(promptEvents) + 1
    /\ Notify(installCallbacks, "true")
    /\ UNCHANGED <<installCallbacks, shows>>
    /\ UNCHANGED nonPwaVars

\* the handler of appinstalled
AppInstalled ==
    /\ deferredPrompt' = 0
    /\ promptEvents' = [e \in DOMAIN promptEvents |-> "installed"]
    /\ Notify(installCallbacks, "false")
    /\ UNCHANGED <<installCallbacks, shows>>
    /\ UNCHANGED nonPwaVars

\* showInstallPrompt up to "await this.deferredPrompt.prompt()"; prompt()
\* throws when it was called on the event before
ShowInstallPrompt ==
    /\ Len(shows) < MaxShows
    /\ IF deferredPrompt = 0
       THEN /\ shows' = Append(shows, [pc |-> "returned", ev |-> 0])
            /\ promptEvents' = promptEvents
       ELSE IF promptEvents[deferredPrompt] = "captured"
       THEN /\ shows' = Append(shows, [pc |-> "prompting", ev |-> deferredPrompt])
            /\ promptEvents' = [promptEvents EXCEPT ![deferredPrompt] = "prompted"]
       ELSE /\ shows' = Append(shows, [pc |-> "returned", ev |-> 0])
            /\ promptEvents' = promptEvents
    /\ UNCHANGED <<deferredPrompt, installCallbacks, delivered, late>>
    /\ UNCHANGED nonPwaVars

\* prompt() settles: "await this.deferredPrompt.userChoice", which throws
\* when deferredPrompt is null; a rejection or a throw ends in the catch
PromptSettles(s, ok) ==
    /\ s \in DOMAIN shows
    /\ shows[s].pc = "prompting"
    /\ shows' = [shows EXCEPT ![s] =
                    IF ok /\ deferredPrompt # 0
                    THEN [pc |-> "choosing", ev |-> deferredPrompt]
                    ELSE [pc |-> "returned", ev |-> 0]]
    /\ UNCHANGED <<deferredPrompt, installCallbacks, delivered, promptEvents, late>>
    /\ UNCHANGED nonPwaVars

\* the user answers the prompt of the event e
UserChooses(e) ==
    /\ e \in DOMAIN promptEvents
    /\ promptEvents[e] = "prompted"
    /\ promptEvents' = [promptEvents EXCEPT ![e] = "chosen"]
    /\ UNCHANGED <<deferredPrompt, installCallbacks, delivered, shows, late>>
    /\ UNCHANGED nonPwaVars

\* userChoice has resolved: "this.deferredPrompt = null" and the callbacks
ChoiceResolves(s) ==
    /\ s \in DOMAIN shows
    /\ shows[s].pc = "choosing"
    /\ promptEvents[shows[s].ev] \in {"chosen", "consumed"}
    /\ deferredPrompt' = 0
    /\ promptEvents' = [promptEvents EXCEPT ![shows[s].ev] = "consumed"]
    /\ Notify(installCallbacks, "false")
    /\ shows' = [shows EXCEPT ![s] = [pc |-> "returned", ev |-> 0]]
    /\ UNCHANGED installCallbacks
    /\ UNCHANGED nonPwaVars

\* onInstallAvailabilityChange(callback)
Subscribe(cb) ==
    /\ cb \notin Items(installCallbacks)
    /\ installCallbacks' = Append(installCallbacks, cb)
    /\ delivered' = [delivered EXCEPT ![cb] =
                        [value |-> IF canInstall THEN "true" ELSE "false",
                         unsubscribed |-> FALSE]]
    /\ late' = late
    /\ UNCHANGED <<deferredPrompt, promptEvents, shows>>
    /\ UNCHANGED nonPwaVars

\* "indexOf(callback)" and "splice(index, 1)"
removeFirst(list, cb) ==
    IF cb \in Items(list)
    THEN LET index == CHOOSE k \in DOMAIN list :
                          list[k] = cb /\ \A j \in 1..(k - 1) : list[j] # cb
         IN  SubSeq(list, 1, index - 1) \o SubSeq(list, index + 1, Len(list))
    ELSE list

\* the function onInstallAvailabilityChange returned for cb is called
Unsubscribe(cb) ==
    /\ delivered[cb].value # "none"
    /\ installCallbacks' = removeFirst(installCallbacks, cb)
    /\ delivered' = [delivered EXCEPT ![cb] = [@ EXCEPT !.unsubscribed = TRUE]]
    /\ UNCHANGED <<deferredPrompt, promptEvents, shows, late>>
    /\ UNCHANGED nonPwaVars

(***************************************************************************)
(* Specifications.                                                         *)
(***************************************************************************)
\* loadPOIs() and loadPOIs('pois.json') name the same data source
SameSourceArgs == {"", "pois.json"}

Load == \E dataSourceFile \in SameSourceArgs : LoadPOIs(dataSourceFile)
Fetched == \E l \in DOMAIN loads : \E outcome \in {"ok", "notok", "rejects"} :
               FetchResponds(l, outcome)
ParseFailed == \E l \in DOMAIN loads : JsonFails(l)
Parsed == \E l \in DOMAIN loads : \E data \in Datasets : JsonResolves(l, data)
Query == \E types \in QueryArgs : QueryPOIs(types)
Mutate == \E how \in {"store", "clear"} : CallerMutates(how)

\* the repository, its loads and its queries
Init == InitData /\ ProxIdle /\ FilterIdle /\ QueryIdle /\ ShellIdle
Next == Load \/ Fetched \/ ParseFailed \/ Parsed \/ Query
Spec == Init /\ [][Next]_vars

\* the repository, its loads and the callers of getSupportedTypes
NextTypes == Load \/ Fetched \/ ParseFailed \/ Parsed \/ GetSupportedTypes \/ Mutate
SpecTypes == Init /\ [][NextTypes]_vars

InitProximity == InitData /\ InitProx /\ FilterIdle /\ QueryIdle /\ ShellIdle
NextProximity == FindPOIsWithNearby
SpecProximity == InitProximity /\ [][NextProximity]_vars

InitAttributes == InitData /\ ProxIdle /\ InitFilter /\ QueryIdle /\ ShellIdle
NextAttributes == FilterPOIsByAttributes
SpecAttributes == InitAttributes /\ [][NextAttributes]_vars


(***************************************************************************)
(* analyzeQuery on its own: the query, the readiness of the model and the  *)
(* dataset the repository has loaded are inputs.                           *)
(***************************************************************************)
ExtractOutcomes ==
    {Nothing, Threw,
     Extracted(<<W_parks>>, <<>>),
     Extracted(<<W_cafe>>, <<W_cozy>>),
     Extracted(<<W_zoo>>, <<W_park, W_list>>),
     Extracted(<<W_cafe, W_park>>, <<W_thai>>)}

AnalyzeTypes == {Array(<<>>), Array(<<Str(W_park), Str(W_cafe)>>), Array(<<Num(42)>>)}

\* the repository after one load, of the dataset data, has resolved
AfterLoadOf(data) ==
    /\ pois = data.pois.items
    /\ supportedTypes = 1
    /\ heap = [r \in Refs |-> IF r = 1 THEN data.supportedTypes.items ELSE <<>>]
    /\ isLoaded = TRUE
    /\ loadPromise = 1
    /\ currentDataSource = "pois.json"
    /\ loads = <<[pc |-> "resolved", src |-> "pois.json", err |-> "", got |-> "dataset",
                  pre |-> [pois |-> <<>>, supportedTypes |-> <<>>, isLoaded |-> FALSE]]>>
    /\ calls = <<[load |-> 1, st |-> "resolved", err |-> ""]>>
    /\ held = NoArray
    /\ lastQuery = [types |-> <<>>, result |-> <<>>, loaded |-> FALSE]
    /\ loadedTypes = data.supportedTypes.items
    /\ mutated = FALSE

InitAnalyze ==
    /\ \E types \in AnalyzeTypes : AfterLoadOf([supportedTypes |-> types, pois |-> Array(<<>>)])
    /\ ProxIdle /\ FilterIdle
    /\ ready \in BOOLEAN
    /\ \E query \in QueryPool : analyses = <<Idle(query)>>
    /\ queries = <<>>
    /\ sqlQueries = <<>>
    /\ ShellIdle

Analyze == \E a \in DOMAIN analyses : AnalyzeQuery(a)
Extract == \E a \in DOMAIN analyses : \E part \in ExtractOutcomes :
               ExtractReturns(a, part, ExtractOutcomes)

NextAnalyze == Analyze \/ Extract
SpecAnalyze == InitAnalyze /\ [][NextAnalyze]_vars

(***************************************************************************)
(* processQuery with the model, the timers, the repository and its loads.  *)
(***************************************************************************)
\* a cafe 1.73 miles from Park1
FarCafe == [ThaiCafe EXCEPT !.id = Str(<<"c","4">>), !.location.latitude = Num(37565),
                            !.location.longitude = Num(-77436)]

Town == [supportedTypes |-> Array(<<Str(W_park), Str(W_cafe)>>),
         pois |-> Array(<<Park1, ThaiCafe>>)]
Sparse == [Town EXCEPT !.pois = Array(<<Park1, FarCafe>>)]
Odd == [supportedTypes |-> Array(<<Num(42)>>), pois |-> Array(<<>>)]
Broken == [supportedTypes |-> Missing, pois |-> Array(<<>>)]

QueryOutcomes == {Threw, Extracted(<<W_parks>>, <<>>), Extracted(<<W_cafe>>, <<W_thai>>)}

Submit == \E query \in QueryTexts : ProcessQuery(query)
Timeout == \E i \in DOMAIN queries : TimerFires(i)
Continue == \E i \in DOMAIN queries : Validated(i)
ExtractQ == \E a \in DOMAIN analyses : \E part \in QueryOutcomes :
                ExtractReturns(a, part, QueryOutcomes)
LoadedQ == \E i \in DOMAIN queries : Loaded(i)
\* the application loads the dataset at its start, and again when the user
\* picks another data source
Preload ==
    \/ calls = <<>> /\ LoadPOIs("")
    \/ currentDataSource = "pois.json" /\ LoadPOIs("other.json")
\* what the two data sources hold
Served(src) == IF src = "pois.json" THEN {Town, Odd} ELSE {Sparse, Broken}
FetchedQ == \E l \in DOMAIN loads : \E outcome \in {"ok", "notok"} : FetchResponds(l, outcome)
ParsedQ == \E l \in DOMAIN loads : \E data \in Served(loads[l].src) : JsonResolves(l, data)

NextQuery ==
    \/ ModelLoads \/ Submit \/ Timeout \/ Continue \/ ExtractQ \/ LoadedQ
    \/ Preload \/ FetchedQ \/ ParsedQ
SpecQuery == Init /\ [][NextQuery]_vars

(***************************************************************************)
(* processQuery under the scheduling of the event loop: a timer that is    *)
(* due fires, a continuation whose promise is settled runs, and a fetch    *)
(* that was sent is answered.  Nothing obliges the model to return from an *)
(* extraction call.                                                        *)
(***************************************************************************)
LiveTexts == {Q_list, Q_near}
LiveOutcomes == {Extracted(<<W_parks>>, <<>>), Extracted(<<W_cafe>>, <<W_thai>>)}
LiveServed(src) == IF src = "pois.json" THEN Town ELSE Sparse

SubmitL == \E query \in LiveTexts : ProcessQuery(query)
ExtractL == \E a \in DOMAIN analyses : \E part \in LiveOutcomes :
                ExtractReturns(a, part, LiveOutcomes)
ParsedL == \E l \in DOMAIN loads : JsonResolves(l, LiveServed(loads[l].src))

NextLive ==
    \/ ModelLoads \/ SubmitL \/ Timeout \/ Continue \/ ExtractL \/ LoadedQ
    \/ Preload \/ FetchedQ \/ ParsedL
FairLive ==
    /\ WF_vars(Timeout) /\ WF_vars(Continue) /\ WF_vars(LoadedQ)
    /\ WF_vars(FetchedQ) /\ WF_vars(ParsedL)
SpecLive == Init /\ [][NextLive]_vars /\ FairLive

(***************************************************************************)
(* processQuery (SQL mode) on the loaded repository.                       *)
(***************************************************************************)
ProximityRow(primary, nearby) ==
    [primary |-> primary, nearby |-> nearby,
     distance_miles |-> calculateDistance(primary.location, nearby.location)]

\* what the generated SQL can select
Tables ==
    {[proximity |-> TRUE, values |-> <<>>],
     [proximity |-> TRUE, values |-> <<ProximityRow(Park1, ThaiCafe)>>],
     [proximity |-> TRUE, values |-> <<ProximityRow(Park1, FarCafe)>>],
     [proximity |-> TRUE, values |-> <<ProximityRow(Park1, ThaiCafe), ProximityRow(Park1, FarCafe)>>],
     [proximity |-> FALSE, values |-> <<>>],
     [proximity |-> FALSE, values |-> <<ThaiCafe>>]}

SqlTexts == {Sp, Q_list, Q_near, Q_find}

InitSql ==
    /\ AfterLoadOf([Town EXCEPT !.pois = Array(<<Park1, ThaiCafe, FarCafe>>)])
    /\ ProxIdle /\ FilterIdle /\ QueryIdle /\ ShellIdle

SqlSubmit == \E query \in SqlTexts : SqlProcessQuery(query)
SqlTimeout == \E i \in DOMAIN sqlQueries : SqlTimerFires(i)
SqlContinue == \E i \in DOMAIN sqlQueries : SqlValidated(i)
SqlSelects == \E i \in DOMAIN sqlQueries : \E table \in Tables : SqlRuns(i, table)
SqlFails == \E i \in DOMAIN sqlQueries : SqlThrows(i)

NextSql ==
    \/ ModelLoads \/ SqlSubmit \/ ExtractQ \/ SqlTimeout \/ SqlContinue
    \/ SqlSelects \/ SqlFails
SpecSql == InitSql /\ [][NextSql]_vars

(***************************************************************************)
(* processQuery for simple queries on the loaded repository, the model     *)
(* being ready: the dataset and what the extraction returns are inputs.    *)
(***************************************************************************)
W_Cozy == <<"C","o","z","y">>
CozyCafe == [Cafe1 EXCEPT !.id = Str(<<"c","2">>),
                          !.attributes = [present |-> TRUE, tags |-> <<W_Cozy>>]]
EmptyTagsCafe == [Cafe1 EXCEPT !.id = Str(<<"c","3">>),
                               !.attributes = [present |-> TRUE, tags |-> <<>>]]

RegularData ==
    {[Town EXCEPT !.pois = Array(<<Park1, Cafe1>>)],
     [Town EXCEPT !.pois = Array(<<Cafe1, EmptyTagsCafe>>)],
     [Town EXCEPT !.pois = Array(<<Cafe1, ThaiCafe>>)],
     [Town EXCEPT !.pois = Array(<<Cafe1, CozyCafe>>)]}

RegularOutcomes ==
    {Extracted(<<W_cafe>>, <<>>), Extracted(<<W_cafe>>, <<W_cozy>>),
     Extracted(<<W_parks>>, <<W_cozy>>), Extracted(<<W_zoo>>, <<W_cozy>>)}

InitRegular ==
    /\ \E data \in RegularData : AfterLoadOf(data)
    /\ ProxIdle /\ FilterIdle
    /\ ready = TRUE
    /\ analyses = <<>>
    /\ queries = <<>>
    /\ sqlQueries = <<>>
    /\ ShellIdle

SubmitR == ProcessQuery(Q_find)
ExtractR == \E a \in DOMAIN analyses : \E part \in RegularOutcomes :
                ExtractReturns(a, part, RegularOutcomes)

NextRegular == SubmitR \/ ExtractR \/ Timeout
SpecRegular == InitRegular /\ [][NextRegular]_vars

(***************************************************************************)
(* The LMProvider from its mount, with the model and the dataset it loads. *)
(***************************************************************************)
InitProvider ==
    /\ InitData /\ ProxIdle /\ FilterIdle /\ QueryIdle
    /\ SqliteIdle /\ AppIdle /\ PwaIdle
    /\ initializationPromise = NoPromise
    /\ pipelineLoads = 0
    /\ isLoading = TRUE
    /\ loadingProgress = 0
    /\ lmError = ""
    /\ runs = <<Deferred>>

Starts == Quiet /\ \E r \in DOMAIN runs : \E webgpu \in BOOLEAN : RunStarts(r, webgpu, FALSE)
Pipeline == Quiet /\ \E ok \in BOOLEAN : PipelineSettles(ok)
Succeeds == \E r \in DOMAIN runs : RunSucceeds(r)
Fails == \E r \in DOMAIN runs :
             \E err \in {"WEBGPU_UNAVAILABLE", "MODEL_LOAD_FAILED", "DATA_FETCH_ERROR",
                         "DATA_PARSE_ERROR", "DATA_VALIDATION_ERROR"} : RunFails(r, err)
Shown == Quiet /\ \E r \in DOMAIN runs : RunShown(r)
Ticks == Quiet /\ \E r \in DOMAIN runs : Tick(r)
RetryP == Quiet /\ Retry
FetchedP == Quiet /\ FetchedQ
ParsedP == Quiet /\ \E l \in DOMAIN loads : \E data \in {Town, Broken} : JsonResolves(l, data)

NextProvider ==
    \/ Starts \/ Pipeline \/ Succeeds \/ Fails \/ Shown \/ Ticks \/ RetryP
    \/ FetchedP \/ ParsedP
SpecProvider == InitProvider /\ [][NextProvider]_vars

(***************************************************************************)
(* The repository with loads of the two data sources of the configuration. *)
(***************************************************************************)
Sample == [supportedTypes |-> Array(<<Str(W_cafe)>>), pois |-> Array(<<FarCafe>>)]
\* what the two files hold
SourceData(src) == IF src = "pois.json" THEN Town ELSE Sample
SourceArgs == {"", "pois.json", "pois-sample.json"}

LoadS == \E dataSourceFile \in SourceArgs : LoadPOIs(dataSourceFile)
ParsedS == \E l \in DOMAIN loads : JsonResolves(l, SourceData(loads[l].src))

NextSources == LoadS \/ Fetched \/ ParseFailed \/ ParsedS
SpecSources == Init /\ [][NextSources]_vars

(***************************************************************************)
(* SqliteService on its own: calls of init by queries, and their queries.  *)
(***************************************************************************)
InitSqlite ==
    /\ InitData /\ ProxIdle /\ FilterIdle /\ QueryIdle
    /\ ProviderIdle /\ AppIdle /\ PwaIdle
    /\ initialized = FALSE
    /\ db = 0
    /\ dbs = <<>>
    /\ inits = <<>>
    /\ used = {}
    /\ localStorage \in {"", "pois-sample.json"}

CallInit == \E dataSourcePath \in {"", "pois.json"} : SqliteInit(dataSourcePath)
SqlJs == \E i \in DOMAIN inits : \E ok \in BOOLEAN : SqlJsLoads(i, ok)
Schema == \E i \in DOMAIN inits : \E ok \in BOOLEAN : SchemaRuns(i, ok)
Populate == \E i \in DOMAIN inits : \E ok \in BOOLEAN : PoisPopulate(i, ok)

NextSqlite == CallInit \/ SqlJs \/ Schema \/ Populate \/ RunQuery
SpecSqlite == InitSqlite /\ [][NextSqlite]_vars

(***************************************************************************)
(* The start of the application in the variant whose provider also calls   *)
(* sqliteService.init(), and the data-source selector, which stores the    *)
(* choice and reloads the page: every service starts anew, and only        *)
(* localStorage is kept.  The progress interval is left out: it changes    *)
(* loadingProgress alone.                                                  *)
(***************************************************************************)
DataSources == {"pois.json", "pois-sample.json"}

\* DataSourceSelector.handleSourceChange(newSource)
HandleSourceChange(newSource) ==
    /\ localStorage' = newSource
    /\ pois' = <<>>
    /\ supportedTypes' = 1
    /\ heap' = [r \in Refs |-> <<>>]
    /\ isLoaded' = FALSE
    /\ loadPromise' = 0
    /\ currentDataSource' = "pois.json"
    /\ loads' = <<>>
    /\ calls' = <<>>
    /\ held' = NoArray
    /\ lastQuery' = [types |-> <<>>, result |-> <<>>, loaded |-> FALSE]
    /\ loadedTypes' = <<>>
    /\ mutated' = FALSE
    /\ ready' = FALSE
    /\ initializationPromise' = NoPromise
    /\ pipelineLoads' = 0
    /\ isLoading' = TRUE
    /\ loadingProgress' = 0
    /\ lmError' = ""
    /\ runs' = <<Deferred>>
    /\ initialized' = FALSE
    /\ db' = 0
    /\ dbs' = <<>>
    /\ inits' = <<>>
    /\ used' = {}
    /\ UNCHANGED <<analyses, queries, sqlQueries, matcherVars, appVars, pwaVars>>

StartsU == Quiet /\ \E r \in DOMAIN runs : \E webgpu \in BOOLEAN : RunStarts(r, webgpu, TRUE)
ParsedU == Quiet /\ \E l \in DOMAIN loads : JsonResolves(l, SourceData(loads[l].src))
SqlJsU == Quiet /\ SqlJs
SchemaU == Quiet /\ Schema
PopulateU == Quiet /\ Populate
Selects == Quiet /\ \E newSource \in DataSources : HandleSourceChange(newSource)

NextStartup ==
    \/ StartsU \/ Pipeline \/ Succeeds \/ Fails \/ Shown \/ RetryP
    \/ FetchedP \/ ParsedU \/ SqlJsU \/ SchemaU \/ PopulateU \/ Selects
SpecStartup == InitProvider /\ [][NextStartup]_vars

(***************************************************************************)
(* The application shell once the provider has initialized it: the form,   *)
(* the type buttons of the displayed result, and the queries they submit.  *)
(***************************************************************************)
InitShell ==
    /\ AfterLoadOf(Town)
    /\ ProxIdle /\ FilterIdle
    /\ ready = TRUE
    /\ analyses = <<>>
    /\ queries = <<>>
    /\ sqlQueries = <<>>
    /\ initializationPromise = [st |-> "resolved", err |-> ""]
    /\ pipelineLoads = 1
    /\ isLoading = FALSE
    /\ loadingProgress = 100
    /\ lmError = ""
    /\ runs = <<[pc |-> "done", interval |-> "cleared", load |-> 1, init |-> 0,
                 priorFailed |-> FALSE, fresh |-> TRUE]>>
    /\ SqliteIdle /\ AppIdle /\ PwaIdle

Typed == QuietApp /\ \E query \in {Q_list, Q_find \o Sp} : HandleSubmit(query)
Clicked == QuietApp /\ \E type \in {W_park, W_cafe} : HandleTypeClick(type)
Displays == \E s \in DOMAIN submissions : ShellContinues(s)
TimeoutA == QuietApp /\ Timeout
ExtractA == QuietApp /\ ExtractQ

NextShell == Typed \/ Clicked \/ Displays \/ TimeoutA \/ ExtractA \/ Continue
SpecShell == InitShell /\ [][NextShell]_vars

(***************************************************************************)
(* PWAUtils with its events, its prompts and its subscribers.              *)
(***************************************************************************)
Prompts == \E s \in DOMAIN shows : \E ok \in BOOLEAN : PromptSettles(s, ok)
Chooses == \E e \in DOMAIN promptEvents : UserChooses(e)
ChoiceDone == \E s \in DOMAIN shows : ChoiceResolves(s)
Subscribes == \E cb \in Callbacks : Subscribe(cb)
Unsubscribes == \E cb \in Callbacks : Unsubscribe(cb)

NextPwa ==
    \/ BeforeInstallPrompt \/ AppInstalled \/ ShowInstallPrompt \/ Prompts \/ Chooses
    \/ ChoiceDone \/ Subscribes \/ Unsubscribes
SpecPwa == Init /\ [][NextPwa]_vars

(***************************************************************************)
(* Properties of the POI repository.                                       *)
(***************************************************************************)
\* a step that is a call of loadPOIs: it returns one more promise
LoadCallStep == Len(calls') = Len(calls) + 1
LastCall == calls[Len(calls)]

\* C1: at most one fetch is in flight at any time; a loadPOIs call made while
\* a load is pending starts no fetch and returns a promise that follows the
\* pending load; a call made once loaded starts no fetch, changes no state of
\* the repository and returns a resolved promise.
C1_SingleFlight ==
    /\ [](Cardinality(InFlight) <= 1)
    /\ [][LoadCallStep =>
            /\ InFlight # {} =>
                   /\ loads' = loads
                   /\ LastCall'.load \in InFlight
                   /\ LastCall'.st = "pending"
            /\ isLoaded =>
                   /\ loads' = loads
                   /\ Repo' = Repo
                   /\ loadPromise' = loadPromise
                   /\ currentDataSource' = currentDataSource
                   /\ LastCall'.st = "resolved"]_vars

\* two calls share the one load that is in flight
C1_Witness ==
    /\ Len(calls) = 2
    /\ Len(loads) = 1
    /\ calls[1].load = 1 /\ calls[2].load = 1
    /\ calls[2].st = "pending"
    /\ InFlight = {1}

\* the most recent load has failed
LastFailed == loads # <<>> /\ loads[Len(loads)].pc = "rejected"

\* C2: after a failed load the slot loadPromise is null and the repository is
\* not loaded; the next loadPOIs call starts a new fetch; and a fetch starts
\* in no step other than a loadPOIs call.
C2_FailureAllowsRetry ==
    /\ [](LastFailed => loadPromise = 0 /\ ~isLoaded)
    /\ [][LastFailed /\ LoadCallStep =>
            /\ Len(loads') = Len(loads) + 1
            /\ loads'[Len(loads')].pc = "fetching"
            /\ loadPromise' = Len(loads')
            /\ LastCall'.load = Len(loads')]_vars
    /\ [][FetchCount' # FetchCount => LoadCallStep]_vars

\* a second load runs after the first has failed on a dataset
C2_Witness ==
    /\ Len(loads) = 2
    /\ loads[1].pc = "rejected" /\ loads[1].got = "dataset"
    /\ loads[2].pc = "parsing"
    /\ calls[1].st = "rejected" /\ calls[2].st = "pending"

IsNonEmptyString(v) == typeof(v) = "string" /\ v.s # <<>>

\* the conditions on a dataset that the specification makes a load depend on
WellFormed(types, ps) ==
    /\ types # <<>>
    /\ \A i \in 1..Len(types) : typeof(types[i]) = "string"
    /\ \A i \in 1..Len(ps) :
          /\ IsNonEmptyString(ps[i].id)
          /\ IsNonEmptyString(ps[i].name)
          /\ IsNonEmptyString(ps[i].type)
          /\ IsNonEmptyString(ps[i].address)
          /\ ps[i].location.present
          /\ typeof(ps[i].location.latitude) = "number"
          /\ typeof(ps[i].location.longitude) = "number"

\* C4: a load succeeds only if supportedTypes is a non-empty list of strings,
\* pois is a list and every POI has a non-empty id, name, type and address
\* and a numeric latitude and longitude.
C4_LoadedIsWellFormed == isLoaded => WellFormed(TypesList, pois)

\* C5: every POI held by a loaded repository has its latitude in [-90, 90]
\* and its longitude in [-180, 180].
C5_CoordinatesInRange ==
    isLoaded =>
        \A i \in 1..Len(pois) :
            /\ pois[i].location.latitude.n >= -90000
            /\ pois[i].location.latitude.n <= 90000
            /\ pois[i].location.longitude.n >= -180000
            /\ pois[i].location.longitude.n <= 180000

EqualsIgnoringCase(a, b) == toLowerCase(a) = toLowerCase(b)

C7_TypesAreCopied ==
    /\ isLoaded => TypesList = loadedTypes
    /\ (held.ref # 0 /\ held.loaded /\ ~held.touched) => heap[held.ref] = loadedTypes

\* after a caller has changed an array it got from the loaded repository,
\* getSupportedTypes hands out the list again
C7_Witness ==
    /\ isLoaded
    /\ mutated
    /\ held.ref # 0 /\ held.loaded /\ ~held.touched
    /\ Len(loadedTypes) = 2
    /\ heap[held.ref] = loadedTypes

(***************************************************************************)
(* Properties of findPOIsWithNearby.                                       *)
(***************************************************************************)
Pois(entries) == [i \in 1..Len(entries) |-> entries[i].poi]

\* C8: in every group, every nearby POI is within maxDistance, the list is in
\* ascending order of distance, and the nearby POIs at one distance are the
\* candidates at that distance in their input order.
C8_NearbySortedWithinThreshold ==
    proxPc = "done" =>
        \A g \in 1..Len(groups) :
            LET near == groups[g].nearbyPOIs
            IN  /\ \A i \in 1..Len(near) : near[i].distance <= maxDistance
                /\ \A i, j \in 1..Len(near) : i < j => near[i].distance <= near[j].distance
                /\ \A i \in 1..Len(near) :
                      Pois(SelectSeq(near, LAMBDA n : n.distance = near[i].distance))
                        = SelectSeq(nearbyPOIs, LAMBDA c :
                              calculateDistance(groups[g].poi.location, c.location)
                                  = near[i].distance)

\* a group lists two distinct POIs at one distance and a farther one that was
\* first among the candidates
C8_Witness ==
    /\ proxPc = "done"
    /\ \E g \in 1..Len(groups) :
          LET near == groups[g].nearbyPOIs
          IN  /\ Len(near) = 3
              /\ near[1].distance = near[2].distance
              /\ near[1].poi # near[2].poi
              /\ near[2].distance < near[3].distance
              /\ nearbyPOIs[1] = near[3].poi

HasCandidateWithin(t) ==
    \E i \in 1..Len(nearbyPOIs) :
        calculateDistance(t.location, nearbyPOIs[i].location) <= maxDistance

\* C9: the groups are the targets that have a candidate within maxDistance,
\* in the order of targetPOIs, and no group has an empty nearby list.
C9_GroupsAreTargetsWithNearby ==
    proxPc = "done" =>
        /\ Pois(groups) = SelectSeq(targetPOIs, HasCandidateWithin)
        /\ \A g \in 1..Len(groups) : groups[g].nearbyPOIs # <<>>

\* of two targets the first has no candidate within maxDistance and is
\* dropped, the second is kept
C9_Witness ==
    /\ proxPc = "done"
    /\ Len(targetPOIs) = 2
    /\ nearbyPOIs # <<>>
    /\ Len(groups) = 1
    /\ groups[1].poi = targetPOIs[2]
    /\ targetPOIs[1] # targetPOIs[2]

(***************************************************************************)
(* Properties of filterPOIsByAttributes.                                   *)
(***************************************************************************)
\* a occurs in b, both taken in lower case
PartOfIgnoringCase(a, b) ==
    \E i \in 1..(Len(b) + 1) : \E j \in 0..Len(b) :
        SubSeq(toLowerCase(b), i, j) = toLowerCase(a)

KeptByAttributes(poi) ==
    /\ poi.attributes.present
    /\ \E a \in 1..Len(poi.attributes.tags) : \E r \in 1..Len(requestedAttributes) :
          \/ PartOfIgnoringCase(requestedAttributes[r], poi.attributes.tags[a])
          \/ PartOfIgnoringCase(poi.attributes.tags[a], requestedAttributes[r])

\* C10: with requested attributes, the result is the POIs that have a tag
\* which, ignoring case, contains or is contained by a requested token, in
\* their input order; with none, the result is the input list.
C10_AttributeFilter ==
    filterPc = "done" =>
        IF requestedAttributes = <<>>
        THEN filtered = filterPois
        ELSE filtered = SelectSeq(filterPois, KeptByAttributes)

\* a POI is kept because the one requested token contains one of its tags,
\* and another POI is dropped
C10_Witness ==
    /\ filterPc = "done"
    /\ requestedAttributes = <<W_bbqs>>
    /\ filtered = <<BbqDeli>>
    /\ Len(filterPois) = 3

(***************************************************************************)
(* Properties of analyzeQuery.                                             *)
(***************************************************************************)
Started == {a \in DOMAIN analyses : analyses[a].pc # "idle"}

\* C11: an analysis of a query that is not blank and matches a type-list
\* pattern has returned a type-list request (valid, no types, no proximity
\* fields) and has made no call of extractNounsAndAdjectives, whether or not
\* the query also matches a proximity pattern or names a category.
C11_TypeListFirst ==
    \A a \in Started :
        (~IsBlank(analyses[a].query) /\ isTypeRequest(analyses[a].query)) =>
            /\ analyses[a].pc = "done"
            /\ analyses[a].ext = 0
            /\ analyses[a].result = TypeRequest

\* "list types near park" has been analysed with park among the types: it
\* matches a type-list pattern and a proximity pattern and names a category
C11_Witness ==
    \E a \in Started :
        /\ analyses[a].query = Q_listNear
        /\ FirstProximityMatch(Q_listNear).found
        /\ FirstProximityMatch(Q_listNear).right = W_park
        /\ \E k \in 1..Len(TypesList) : TypesList[k] = Str(W_park)
        /\ ready
        /\ analyses[a].pc = "done"
        /\ analyses[a].result.isTypeRequest

\* some noun of the extraction is matched by a type of the list
Resolves(part, types) ==
    \E i \in 1..Len(part.nouns) : \E k \in 1..Len(types) :
        typeof(types[k]) = "string" /\ NounMatches(part.nouns[i], types[k].s)

NoProximityFields(result) ==
    /\ ~result.isProximityQuery
    /\ result.targetType = Undefined
    /\ result.nearbyType = Undefined
    /\ result.nearbyAttributes = <<>>

\* C20: when the second segment's extraction returns, a proximity intent is
\* emitted only if a noun of each segment is matched by a type; if a side is
\* not matched the analysis sets no proximity field and, the types being
\* strings, goes on to extract from the whole query; and the result of an
\* analysis that ends with the extraction from the whole query is the result
\* of the simple branch on that extraction, with no proximity field.
C20_ProximityNeedsBothSides ==
    [][\A a \in DOMAIN analyses :
          LET an == analyses[a]
              next == analyses'[a]
              both == Resolves(an.target, TypesList) /\ Resolves(next.last, TypesList)
          IN  /\ (an.pc = "nearby" /\ next.pc # "nearby") =>
                     /\ next.result.isProximityQuery => both
                     /\ ~both => NoProximityFields(next.result)
                     /\ (~both /\ \A k \in 1..Len(TypesList) : typeof(TypesList[k]) = "string")
                            => next.pc = "simple" /\ next.text = an.query
              /\ (an.pc = "simple" /\ next.pc = "done") =>
                     /\ next.result = afterWhole(next.last, TypesList)
                     /\ NoProximityFields(next.result)]_vars

\* a query that matches a proximity pattern was analysed with three
\* extraction calls: one side did not resolve, and the extraction from the
\* whole query found a type
C20_Witness ==
    \E a \in Started :
        /\ analyses[a].prox
        /\ analyses[a].pc = "done"
        /\ analyses[a].ext = 3
        /\ analyses[a].result.isValid
        /\ NoProximityFields(analyses[a].result)

(***************************************************************************)
(* Properties of processQuery.                                             *)
(***************************************************************************)
Done == {i \in DOMAIN queries : queries[i].pc = "done"}

\* the step is a call of processQuery with the argument query
IsCallOf(query) ==
    /\ Len(queries') = Len(queries) + 1
    /\ queries'[Len(queries')].query = query

\* C12: a call of processQuery with an empty or whitespace-only query has
\* returned Suggestions with the message that asks for a query, and no
\* analysis, hence no extraction call, was started for it, whatever the
\* readiness of the model and the state of the repository.
C12_BlankGetsSuggestions ==
    \A i \in DOMAIN queries :
        IsBlank(queries[i].query) =>
            /\ queries[i].pc = "done"
            /\ queries[i].an = 0
            /\ queries[i].result.type = "suggestions"
            /\ queries[i].result.message = Message(EnterAQuery)

\* C13: a call of processQuery with a query that is not blank, made while the
\* model is not ready, returns at once the Error result with the
\* still-initializing message and starts no analysis and no load; and no
\* call that has no analysis awaits a load.
C13_NotReadyIsError ==
    [][/\ \A query \in QueryTexts :
             (IsCallOf(query) /\ ~IsBlank(query) /\ ~ready) =>
                 /\ queries'[Len(queries')].pc = "done"
                 /\ queries'[Len(queries')].result = ErrorResult(StillInitializing)
                 /\ UNCHANGED <<analyses, dataVars>>
       /\ \A i \in DOMAIN queries :
             queries[i].an = 0 => queries[i].pc = "done" /\ queries[i].load = 0]_vars

\* a call made before the model was ready has the still-initializing error,
\* and nothing has been loaded or analysed
C13_Witness ==
    \E i \in Done :
        /\ ~IsBlank(queries[i].query)
        /\ queries[i].result = ErrorResult(StillInitializing)
        /\ analyses = <<>>
        /\ calls = <<>>

\* C14: when the timer of a call fires while its analysis has not returned,
\* the call returns the Error result with the timed-out message; and the
\* result of a call that has returned never changes, whatever extraction
\* returns afterwards.
C14_TimeoutWinsTheRace ==
    [][\A i \in DOMAIN queries :
          /\ (/\ queries[i].pc = "validating"
              /\ analyses[queries[i].an].pc # "done"
              /\ analyses' = analyses
              /\ queries'[i] # queries[i])
                 => (queries'[i].pc = "done" /\ queries'[i].result = ErrorResult(TimedOut))
          /\ queries[i].pc = "done" => queries'[i] = queries[i]]_vars

\* a call has timed out, and its analysis has since run to its end with a
\* result the call would have answered otherwise
C14_Witness ==
    \E i \in Done :
        /\ queries[i].result = ErrorResult(TimedOut)
        /\ analyses[queries[i].an].pc = "done"
        /\ analyses[queries[i].an].ext > 0
        /\ analyses[queries[i].an].result.isValid

QueryResultTypes == {"success", "grouped", "suggestions", "types", "error"}

\* C15: no call of processQuery rejects: a call that has returned has a
\* QueryResult of one of the five variants, and a call that has not returned
\* has no result yet.
C15_NeverRejects ==
    \A i \in DOMAIN queries :
        IF queries[i].pc = "done"
        THEN queries[i].result.type \in QueryResultTypes
        ELSE queries[i].result = NoResult

\* a call that awaited a load of the dataset has returned Error after the
\* load failed
C15_Witness ==
    \E i \in Done : /\ queries[i].load > 0
                     /\ calls[queries[i].load].st = "rejected"
                     /\ queries[i].result = ErrorResult(LoadError(calls[queries[i].load].err).userMessage)

\* C16: a call whose analysis saw the model throw, and whose timer did not
\* fire, has returned Suggestions.
C16_ThrowGetsSuggestions ==
    \A i \in Done :
        (/\ queries[i].an > 0
         /\ analyses[queries[i].an].threw
         /\ queries[i].result # ErrorResult(TimedOut))
            => queries[i].result.type = "suggestions"

\* the supportedTypes of the datasets that the data sources hold
ServedTypes == {Town.supportedTypes.items, Sparse.supportedTypes.items, Odd.supportedTypes.items}

\* C17: a call that returned a TypesList result returned the supportedTypes
\* of a dataset, also when no load was started or completed before the call.
C17_TypesOfTheDataset ==
    \A i \in Done :
        queries[i].result.type = "types" => queries[i].result.types \in ServedTypes

\* the answers to proximity intents: the validation result and the result of
\* every call, of either orchestrator, that has returned Suggestions or Grouped
\* for a query whose analysis gave a proximity intent
ProximityAnswers ==
    {[v |-> analyses[queries[i].an].result, result |-> queries[i].result] :
        i \in {j \in Done : queries[j].an > 0}}
    \cup
    {[v |-> analyses[sqlQueries[i].an].result, result |-> sqlQueries[i].result] :
        i \in {j \in DOMAIN sqlQueries : sqlQueries[j].pc = "done" /\ sqlQueries[j].an > 0}}

\* C18: for a proximity intent, a Grouped result has at least one group, both
\* types of the intent, and as maxDistance the configured threshold, within
\* which every nearby POI of every group lies; and a Suggestions result has
\* a message that names the two types and the configured threshold.
C18_ProximityAnswer ==
    \A answer \in ProximityAnswers :
        LET v == answer.v
            result == answer.result
        IN  v.isProximityQuery =>
               /\ result.type = "grouped" =>
                      /\ Len(result.poisWithNearby) > 0
                      /\ result.targetType = v.targetType
                      /\ result.nearbyType = v.nearbyType
                      /\ result.maxDistance = nearbyDistanceMiles
                      /\ \A g \in 1..Len(result.poisWithNearby) :
                            \A n \in 1..Len(result.poisWithNearby[g].nearbyPOIs) :
                                result.poisWithNearby[g].nearbyPOIs[n].distance <= nearbyDistanceMiles
               /\ result.type = "suggestions" =>
                      /\ result.message.names = <<replaceUnderscore(v.targetType.s),
                                                  replaceUnderscore(v.nearbyType.s)>>
                      /\ result.message.miles = nearbyDistanceMiles

\* C19: every call of processQuery eventually returns, and a step changes
\* at most one call: calls that await the same load each return in a step
\* of their own.
C19_EveryCallReturns ==
    /\ \A i \in 1..MaxQueries :
          (i \in DOMAIN queries) ~> (i \in DOMAIN queries /\ queries[i].pc = "done")
    /\ [][\A i, j \in DOMAIN queries :
             (i # j /\ queries'[i] # queries[i]) => queries'[j] = queries[j]]_vars

\* two calls await the promise of the same load of the dataset
C19_Witness ==
    \E i, j \in DOMAIN queries :
        /\ i # j
        /\ queries[i].pc = "loading"
        /\ queries[j].pc = "loading"
        /\ calls[queries[i].load].load = calls[queries[j].load].load
        /\ loads[calls[queries[i].load].load].pc \in {"fetching", "parsing"}

\* the adjective, in lower case, is one of the common query words
IsStopWord(adjLower) == \E w \in 1..Len(commonQueryWords) : adjLower = commonQueryWords[w]

\* the adjective, in lower case, is a type of the list, or its singular or plural
IsCategoryTerm(adjLower, types) ==
    \E k \in 1..Len(types) : typeof(types[k]) = "string" /\ AdjectiveIsType(adjLower, types[k].s)

\* the analyses that ended in the simple branch, the types being strings
EndedSimple ==
    {a \in Started : /\ analyses[a].pc = "done"
                     /\ analyses[a].ext > 0
                     /\ ~analyses[a].result.isProximityQuery
                     /\ \A k \in 1..Len(TypesList) : typeof(TypesList[k]) = "string"}

\* C21: the attributes of an intent that simple extraction gives are the
\* extracted adjectives, in their order, without those that are a common
\* query word and without those that are a category term.
C21_AttributesAreFilteredAdjectives ==
    \A a \in EndedSimple :
        analyses[a].result.attributes =
            SelectSeq(analyses[a].last.adjectives,
                      LAMBDA adj : /\ ~IsStopWord(toLowerCase(adj))
                                   /\ ~IsCategoryTerm(toLowerCase(adj), TypesList))

\* the calls that answered a simple intent with requested attributes from the
\* repository: the intent and the result
FilteredAnswers ==
    {[v |-> analyses[queries[i].an].result, result |-> queries[i].result] :
        i \in {j \in Done : /\ queries[j].an > 0
                             /\ queries[j].result.type \in {"success", "suggestions"}
                             /\ analyses[queries[j].an].result.isValid
                             /\ ~analyses[queries[j].an].result.isProximityQuery
                             /\ Len(analyses[queries[j].an].result.attributes) > 0}}

Carries(poi) == poi.attributes.present /\ Len(poi.attributes.tags) > 0

\* the POI carries an attribute that a requested one is part of, or the
\* other way round, case ignored
MeetsRequest(poi, requested) ==
    /\ Carries(poi)
    /\ \E r \in 1..Len(requested) : \E a \in 1..Len(poi.attributes.tags) :
          \/ PartOfIgnoringCase(requested[r], poi.attributes.tags[a])
          \/ PartOfIgnoringCase(poi.attributes.tags[a], requested[r])

\* C22: for a simple query with requested attributes, when no POI of the
\* types asked for carries attributes the result is Success with all of them
\* (if there are any); when one does, the result is Success with exactly
\* those that meet the request, or Suggestions when none meets it.
C22_FilterOnlyIfAttributesExist ==
    \A answer \in FilteredAnswers :
        LET subset == queryPOIs(Texts(answer.v.types))
            met == SelectSeq(subset, LAMBDA poi : MeetsRequest(poi, answer.v.attributes))
            expected == IF \E k \in 1..Len(subset) : Carries(subset[k]) THEN met ELSE subset
        IN  IF Len(expected) = 0
            THEN answer.result.type = "suggestions"
            ELSE answer.result.type = "success" /\ answer.result.pois = expected

\* attributes were requested, no POI of the type carries any, and the call
\* returned the whole subset, which has a POI whose attributes are an empty list
C22_Witness ==
    \E answer \in FilteredAnswers :
        LET subset == queryPOIs(Texts(answer.v.types))
        IN  /\ Len(subset) = 2
            /\ \A k \in 1..Len(subset) : ~Carries(subset[k])
            /\ \E k \in 1..Len(subset) : subset[k].attributes.present
            /\ answer.result.type = "success"
            /\ answer.result.pois = subset

\* C23: every distance attached to a nearby POI of a group that the matcher
\* returned is a whole number of hundredths of a mile.
C23_DistancesHaveTwoDecimals ==
    \A g \in 1..Len(groups) : \A n \in 1..Len(groups[g].nearbyPOIs) :
        groups[g].nearbyPOIs[n].distance = round2(groups[g].nearbyPOIs[n].distance)

(***************************************************************************)
(* Properties of the LMProvider.                                           *)
(***************************************************************************)
Began(r) == runs[r].pc \in {"awaiting", "showing", "done", "failed"}
Settled(r) == runs[r].pc \in {"showing", "done", "failed"}

\* C24: a run of the provider that calls initialize after initialize has
\* failed makes a new attempt: the body of initialize runs again for it
C24_RetryInitializesAgain ==
    \A r \in DOMAIN runs : Began(r) /\ runs[r].priorFailed => runs[r].fresh

\* C29: the interval of a run that has settled is not running; while the
\* latest run is failed the progress is 0, after its success it is 100, and
\* while it awaits the progress is at most 80
C29_ProgressSettles ==
    /\ \A r \in DOMAIN runs : Settled(r) => runs[r].interval # "running"
    /\ runs # <<>> =>
          LET last == runs[Len(runs)]
          IN  /\ last.pc = "failed" => loadingProgress = 0
              /\ last.pc \in {"showing", "done"} => loadingProgress = 100
              /\ last.pc = "awaiting" => loadingProgress <= 80


(***************************************************************************)
(* Properties of loads that name different data sources.                   *)
(***************************************************************************)
\* the invocation l is in flight and is not the one loadPromise holds
Superseded(l) == l \in InFlight /\ loadPromise # l
LoadedFromCurrentSource ==
    isLoaded => /\ pois = SourceData(currentDataSource).pois.items
                /\ TypesList = SourceData(currentDataSource).supportedTypes.items
SlotSurvives ==
    \A l \in DOMAIN loads :
        Superseded(l) /\ loads'[l].pc \in {"resolved", "rejected"} => loadPromise' = loadPromise

\* C26: whenever the repository is marked loaded, its POIs and supported
\* types are those of the file currentDataSource names, and a superseded
\* load that settles leaves loadPromise as it is
C26_SupersededLoadsAreHarmless == [](LoadedFromCurrentSource) /\ [][SlotSurvives]_vars


(***************************************************************************)
(* Properties of the data-source selector and of SqliteService.            *)
(***************************************************************************)
\* the provider has initialized the application
Initialized == runs # <<>> /\ runs[Len(runs)].pc \in {"showing", "done"}

\* C25: once a source has been selected and the application has started
\* again, the repository and the database hold the data of that source
C25_ServicesHoldSelectedSource ==
    Initialized /\ localStorage # "" =>
        /\ currentDataSource = localStorage
        /\ pois = SourceData(localStorage).pois.items
        /\ db # 0 /\ dbs[db].rows = <<localStorage>>

Building == {i \in DOMAIN inits : InitInFlight(i)}
\* C27: at most one invocation of init is building a database, and the
\* handle runQuery has used is the handle the service holds
C27_OneDatabaseInitialization ==
    /\ Cardinality(Building) <= 1
    /\ used \subseteq {db}


(***************************************************************************)
(* Properties of the application shell.                                    *)
(***************************************************************************)
InFlightSubmissions == {s \in DOMAIN submissions : submissions[s].pc = "awaiting"}

\* C28: when every submission has completed the displayed result is that of
\* the query submitted last, and isProcessing is true while a submission is
\* in flight
C28_LatestSubmissionWins ==
    /\ submissions # <<>> /\ InFlightSubmissions = {} =>
           queryResult = queries[submissions[Len(submissions)].q].result
    /\ InFlightSubmissions # {} => isProcessing


(***************************************************************************)
(* Properties of PWAUtils.                                                 *)
(***************************************************************************)
SubscribersAreCurrent ==
    \A cb \in Items(installCallbacks) :
        delivered[cb].value = IF canInstall THEN "true" ELSE "false"
\* the event captured last waits for its prompt or for the answer to it
Available ==
    /\ promptEvents # <<>>
    /\ promptEvents[Len(promptEvents)] \in {"captured", "prompted", "chosen"}

\* C30: every subscribed callback was last called with canInstall(),
\* canInstall() tells whether the event captured last has not been consumed
\* by a completed prompt or by appinstalled, and no callback was called
\* after its unsubscribe function had run
C30_InstallAvailability ==
    /\ SubscribersAreCurrent
    /\ canInstall <=> Available
    /\ late = {}


====
